---- MODULE Spec2Model ----
(***************************************************************************)
(* Authentication and token lifecycle of costa-cli.                        *)
(*                                                                         *)
(*   internal/auth  (token store, refresh engine, coding-token exchanger)  *)
(*   internal/cli   (login command: PKCE listener and follower)            *)
(*                                                                         *)
(* Time is counted in minutes.  Strings are TLA+ strings, "" is Go's empty *)
(* string.  A nil *TokenData is the record NilTok (present = FALSE); a nil *)
(* *time.Time is NoExpiry.                                                 *)
(***************************************************************************)
EXTENDS Integers, FiniteSets, Sequences, TLC

VARIABLES
    keyring,      \* OS vault: account name -> secret (accounts that are set)
    keyringUp,    \* environment: TRUE while the vault answers; FALSE = every call errors
    metaFile,     \* ~/.config/costa/token-metadata.json
    tokenFile,    \* ~/.config/costa/token.json
    useKeyring,   \* package variable useKeyring, one per OS process
    now,          \* wall clock, minutes
    tokenMutex,   \* package variable tokenMutex: 0 = unlocked, else the caller holding it
    pc,           \* per caller goroutine: position in EnsureOAuthTokenValid / GetCodingToken
    op,           \* per caller: which entry point it called
    local,        \* per caller: the locals `token` (bundle loaded) and `oauthToken`
    last,         \* observation: the most recent return of a call
    sawExpired,   \* observation: some call found the primary token expired and refreshable
    badGrant,     \* observation: some grant was refused or answered with a token not valid
                  \* under the skew
    grants,       \* number of refresh-token grants sent to the provider
    fetches,      \* number of GETs sent to the coding-token endpoint
    inv,          \* per `costa login` invocation: its mode, position, locals, outcome
    port,         \* callback port 8765: 0 = free, else the invocation whose listener holds it
    sto,          \* direct calls of the store: the call in progress, the last call's
                  \* arguments and results, a file being written, another process's read
    cc            \* `costa setup claude-code`: the settings file, the backups taken, and
                  \* the last run's options, answers and result

storeVars == <<keyring, metaFile, tokenFile>>
tokVars   == <<tokenMutex, pc, op, local, last, sawExpired, badGrant, grants, fetches>>
envVars   == <<keyringUp, now>>
loginVars == <<inv, port>>

----------------------------------------------------------------------------
(* Bounds of the model *)

NCallers == 2
MaxNow == 2
NInvs == 2          \* login invocations
MaxCallbacks == 2   \* callback requests a listener handles at once
WaitPolls == 2      \* loginWaitTimeout / pollInterval, scaled down

(* Program constants *)

DefaultClockSkew == 5
NoExpiry == -1

Callers == 1..NCallers
TokProc == 1     \* the OS process the caller goroutines run in

keyringOAuthAccessToken  == "oauth-access-token"
keyringOAuthRefreshToken == "oauth-refresh-token"
keyringCodingAccessToken == "coding-access-token"

----------------------------------------------------------------------------
(* Token model and validity policy *)

NilTok == [present |-> FALSE, access |-> "", refresh |-> "", type |-> "", exp |-> NoExpiry]

TokenData(a, r, ty, e) ==
    [present |-> TRUE, access |-> a, refresh |-> r, type |-> ty, exp |-> e]

\* &Token{}
EmptyToken == [oauth |-> NilTok, coding |-> NilTok, cli |-> NilTok]

\* Variant: a token that expires exactly skew from now already counts as expired
IsExpiredWithSkewInclusive(td, skew, t) ==
    IF ~td.present \/ td.exp = NoExpiry THEN FALSE ELSE t + skew >= td.exp

\* time.Now().Add(skew).After(*td.ExpiresAt)
IsExpiredWithSkew(td, skew, t) ==
    IF ~td.present \/ td.exp = NoExpiry THEN FALSE ELSE t + skew > td.exp

\* Variant: the access token is not looked at
IsValidAnyAccess(td, t) ==
    IF ~td.present THEN FALSE
    ELSE ~IsExpiredWithSkew(td, DefaultClockSkew, t)

IsValid(td, t) ==
    IF ~td.present \/ td.access = "" THEN FALSE
    ELSE ~IsExpiredWithSkew(td, DefaultClockSkew, t)

----------------------------------------------------------------------------
(* Secure token store *)

NoMetaFile  == [exists |-> FALSE, oauthType |-> "", oauthExp |-> NoExpiry,
                codingType |-> "", codingExp |-> NoExpiry]
NoTokenFile == [exists |-> FALSE, data |-> EmptyToken]
NoKeyring   == [k \in {} |-> ""]

KeyringSet(kr, k, v) == [x \in (DOMAIN kr) \cup {k} |-> IF x = k THEN v ELSE kr[x]]

\* keyring.Get: value, or "" with ErrNotFound
KeyringGet(kr, k) == IF k \in DOMAIN kr THEN kr[k] ELSE ""

\* The keyring.Set calls saveTokenToKeyring makes for a bundle, in order.
KeyringWrites(token) ==
    (IF token.oauth.present /\ token.oauth.access # ""
       THEN <<(<<keyringOAuthAccessToken, token.oauth.access>>)>> ELSE <<>>)
    \o (IF token.oauth.present /\ token.oauth.refresh # ""
       THEN <<(<<keyringOAuthRefreshToken, token.oauth.refresh>>)>> ELSE <<>>)
    \o (IF token.coding.present /\ token.coding.access # ""
       THEN <<(<<keyringCodingAccessToken, token.coding.access>>)>> ELSE <<>>)

RECURSIVE ApplyWrites(_, _)
ApplyWrites(kr, ws) ==
    IF ws = <<>> THEN kr
    ELSE ApplyWrites(KeyringSet(kr, Head(ws)[1], Head(ws)[2]), Tail(ws))

\* TokenMetadata built from a bundle, as written to the metadata file
MetadataOf(token) ==
    [exists     |-> TRUE,
     oauthType  |-> IF token.oauth.present THEN token.oauth.type ELSE "",
     oauthExp   |-> IF token.oauth.present THEN token.oauth.exp ELSE NoExpiry,
     codingType |-> IF token.coding.present THEN token.coding.type ELSE "",
     codingExp  |-> IF token.coding.present THEN token.coding.exp ELSE NoExpiry]

\* json.MarshalIndent(token): a nil slot is omitted and reads back nil; in a slot,
\* refresh_token and expires_at are omitted when empty / nil and read back so.
MarshalSlot(td) ==
    IF td.present THEN TokenData(td.access, td.refresh, td.type, td.exp) ELSE NilTok

MarshalToken(token) ==
    [oauth |-> MarshalSlot(token.oauth), coding |-> MarshalSlot(token.coding),
     cli |-> MarshalSlot(token.cli)]

\* Result: [err, keyring, metaFile]
saveTokenToKeyring(token, kr, mf, up) ==
    IF KeyringWrites(token) # <<>> /\ ~up
    THEN [err |-> TRUE, keyring |-> kr, metaFile |-> mf]
    ELSE [err |-> FALSE, keyring |-> ApplyWrites(kr, KeyringWrites(token)),
          metaFile |-> MetadataOf(token)]

saveTokenToFile(token) == [exists |-> TRUE, data |-> MarshalToken(token)]

\* Variant: the fallback to the file is not remembered
SaveTokenForgetful(token, kr, mf, tf, uk, up) ==
    IF uk
    THEN LET r == saveTokenToKeyring(token, kr, mf, up) IN
         IF r.err
         THEN [err |-> FALSE, keyring |-> kr, metaFile |-> mf,
               tokenFile |-> saveTokenToFile(token), useKeyring |-> TRUE]
         ELSE [err |-> FALSE, keyring |-> r.keyring, metaFile |-> r.metaFile,
               tokenFile |-> tf, useKeyring |-> TRUE]
    ELSE [err |-> FALSE, keyring |-> kr, metaFile |-> mf,
          tokenFile |-> saveTokenToFile(token), useKeyring |-> FALSE]

\* Result: [err, keyring, metaFile, tokenFile, useKeyring]
SaveToken(token, kr, mf, tf, uk, up) ==
    IF uk
    THEN LET r == saveTokenToKeyring(token, kr, mf, up) IN
         IF r.err
         THEN [err |-> FALSE, keyring |-> kr, metaFile |-> mf,
               tokenFile |-> saveTokenToFile(token), useKeyring |-> FALSE]
         ELSE [err |-> FALSE, keyring |-> r.keyring, metaFile |-> r.metaFile,
               tokenFile |-> tf, useKeyring |-> TRUE]
    ELSE [err |-> FALSE, keyring |-> kr, metaFile |-> mf,
          tokenFile |-> saveTokenToFile(token), useKeyring |-> FALSE]

\* Result: [err, token]
loadTokenFromKeyring(kr, mf, up) ==
    IF ~mf.exists THEN [err |-> TRUE, token |-> EmptyToken]
    ELSE IF (mf.oauthType # "" \/ mf.codingType # "") /\ ~up
    THEN [err |-> TRUE, token |-> EmptyToken]
    ELSE
      LET oa == KeyringGet(kr, keyringOAuthAccessToken)
          orf == KeyringGet(kr, keyringOAuthRefreshToken)
          ca == KeyringGet(kr, keyringCodingAccessToken)
      IN [err |-> FALSE,
          token |->
            [oauth  |-> IF mf.oauthType # "" /\ oa # ""
                        THEN TokenData(oa, orf, mf.oauthType, mf.oauthExp) ELSE NilTok,
             coding |-> IF mf.codingType # "" /\ ca # ""
                        THEN TokenData(ca, "", mf.codingType, mf.codingExp) ELSE NilTok,
             cli    |-> NilTok]]

\* Variant: the migration copies the cli field and leaves it set
loadTokenFromFileKeepsCLI(tf) ==
    IF ~tf.exists THEN [err |-> TRUE, token |-> EmptyToken]
    ELSE IF tf.data.cli.present /\ ~tf.data.coding.present
    THEN [err |-> FALSE, token |-> [tf.data EXCEPT !.coding = tf.data.cli]]
    ELSE [err |-> FALSE, token |-> tf.data]

\* Result: [err, token]
loadTokenFromFile(tf) ==
    IF ~tf.exists THEN [err |-> TRUE, token |-> EmptyToken]
    ELSE IF tf.data.cli.present /\ ~tf.data.coding.present
    THEN [err |-> FALSE,
          token |-> [tf.data EXCEPT !.coding = tf.data.cli, !.cli = NilTok]]
    ELSE [err |-> FALSE, token |-> tf.data]

\* Result: [err, token, useKeyring]
LoadToken(kr, mf, tf, uk, up) ==
    IF tf.exists
    THEN [err |-> loadTokenFromFile(tf).err, token |-> loadTokenFromFile(tf).token,
          useKeyring |-> FALSE]
    ELSE IF uk
    THEN LET r == loadTokenFromKeyring(kr, mf, up) IN
         IF r.err
         THEN [err |-> loadTokenFromFile(tf).err, token |-> loadTokenFromFile(tf).token,
               useKeyring |-> FALSE]
         ELSE [err |-> FALSE, token |-> r.token, useKeyring |-> TRUE]
    ELSE [err |-> loadTokenFromFile(tf).err, token |-> loadTokenFromFile(tf).token,
          useKeyring |-> FALSE]

\* Variant: only the primary token's vault entry is probed
IsLoggedInOAuthOnly(kr, mf, tf, up) ==
    \/ tf.exists
    \/ /\ mf.exists
       /\ up
       /\ keyringOAuthAccessToken \in DOMAIN kr

IsLoggedIn(kr, mf, tf, up) ==
    \/ tf.exists
    \/ /\ mf.exists
       /\ up
       /\ \/ keyringOAuthAccessToken \in DOMAIN kr
          \/ keyringCodingAccessToken \in DOMAIN kr

\* Variant: the vault is asked before the files are looked at
IsLoggedInProbesVaultFirst(kr, mf, tf, up) ==
    <<keyringOAuthAccessToken, "token.json">>

\* What IsLoggedIn consults, in order: os.Stat of the token file, os.Stat of the
\* metadata file, keyring.Get of the primary and of the service access token
IsLoggedInProbes(kr, mf, tf, up) ==
    IF tf.exists THEN <<"token.json">>
    ELSE IF ~mf.exists THEN <<"token.json", "token-metadata.json">>
    ELSE IF up /\ keyringOAuthAccessToken \in DOMAIN kr
    THEN <<"token.json", "token-metadata.json", keyringOAuthAccessToken>>
    ELSE <<"token.json", "token-metadata.json", keyringOAuthAccessToken,
           keyringCodingAccessToken>>

\* What LoadToken returns in the current state, for process p
Stored(p) == LoadToken(keyring, metaFile, tokenFile, useKeyring[p], keyringUp)

\* keyring.Delete of the three accounts; every error is discarded, so nothing is
\* removed from a vault that does not answer
KeyringDeleteAll(kr, up) ==
    IF up
    THEN [k \in (DOMAIN kr) \ {keyringOAuthAccessToken, keyringOAuthRefreshToken,
                                keyringCodingAccessToken} |-> kr[k]]
    ELSE kr

\* Result: [err, keyring, metaFile, tokenFile].  os.Remove of an absent metadata
\* file is not an error; the result of os.Remove of the token file is discarded.
DeleteToken(kr, mf, tf, up) ==
    [err |-> FALSE, keyring |-> KeyringDeleteAll(kr, up), metaFile |-> NoMetaFile,
     tokenFile |-> NoTokenFile]

----------------------------------------------------------------------------
(* Token refresh engine and coding-token exchanger (one OS process, TokProc) *)

\* Variant: the entry points do not take the mutex
MutexFreeUnguarded == TRUE

\* tokenMutex.Lock() returns only while nobody holds the mutex
MutexFree == tokenMutex = 0

\* golang.org/x/oauth2: config.TokenSource(ctx, oldToken) is a reuseTokenSource whose
\* Token() returns oldToken itself while oldToken.Valid(): AccessToken != "" and
\* Expiry (if set) minus the 10 s expiryDelta is not before now.  Only otherwise is a
\* refresh grant sent.  On the minute grid: Expiry - 10 s < now  iff  Expiry <= now.
TokenSourceReuses(td, t) ==
    td.access # "" /\ (td.exp = NoExpiry \/ td.exp > t)

AccessName(n)  == "at" \o ToString(n)
RefreshName(n) == "rt" \o ToString(n)
CodingName(n)  == "ct" \o ToString(n)

\* What EnsureOAuthTokenValid decides after LoadToken, before any network call.
\*   kind "err"  : return the error
\*   kind "ok"   : return tok (how = "valid": stored token returned as is;
\*                 how = "reused": the token source handed oldToken back, it is saved again)
\*   kind "send" : a refresh grant goes to the provider
EnsureDecision(ld, t) ==
    LET oa == ld.token.oauth IN
    IF ld.err THEN [kind |-> "err", err |-> "load_failed", tok |-> NilTok, how |-> ""]
    ELSE IF ~oa.present
    THEN [kind |-> "err", err |-> "no_oauth", tok |-> NilTok, how |-> ""]
    ELSE IF ~IsExpiredWithSkew(oa, DefaultClockSkew, t)
    THEN [kind |-> "ok", err |-> "", tok |-> oa, how |-> "valid"]
    ELSE IF oa.refresh = ""
    THEN [kind |-> "err", err |-> "no_refresh", tok |-> NilTok, how |-> ""]
    ELSE IF TokenSourceReuses(oa, t)
    THEN [kind |-> "ok", err |-> "", tok |-> TokenData(oa.access, oa.refresh, oa.type, oa.exp),
          how |-> "reused"]
    ELSE [kind |-> "send", err |-> "", tok |-> NilTok, how |-> ""]

\* What a call returned: (tok, nil) or (nil, err).  how and status record how the
\* call got there: the path taken and the HTTP status it handled (0: none).
NoRet == [kind |-> "none", err |-> "", tok |-> NilTok, how |-> "", status |-> 0]
RetErr(e, st) == [kind |-> "err", err |-> e, tok |-> NilTok, how |-> "", status |-> st]
RetOk(td, h, st) == [kind |-> "ok", err |-> "", tok |-> td, how |-> h, status |-> st]

Returns(c, o, r) == last' = r

NoLocal == [token |-> EmptyToken, oauthToken |-> NilTok]

\* The instants at which tokens issued by the provider expire
ExpiryGrid == {4, 9}

\* The provider's answers to a refresh grant: failure (transport error or non-2xx),
\* or a token response; refresh = "" when the response carries no refresh_token,
\* expiresIn = 0 when it carries no expires_in.
RefreshResponses ==
    [ok : {FALSE}, refresh : {""}, expiresIn : {0}]
    \cup [ok : {TRUE}, refresh : {"", RefreshName(grants)},
          expiresIn : {0} \cup {e - now : e \in ExpiryGrid}]

\* The newToken the oauth2 token source returns for a successful grant
NewToken(old, resp, t) ==
    TokenData(AccessName(grants),
              IF resp.refresh = "" THEN old.refresh ELSE resp.refresh,
              "Bearer",
              IF resp.expiresIn = 0 THEN NoExpiry ELSE t + resp.expiresIn)

\* Variant: the refreshed token is saved in a bundle of its own
SetOAuthAlone(token, td) == [EmptyToken EXCEPT !.oauth = td]

\* token.OAuth = newTokenData, on the bundle LoadToken returned
SetOAuth(token, td) == [token EXCEPT !.oauth = td]

\* How the Ensure phase ends for caller c with entry point o
EnsureEnds(c, o, r) ==
    IF r.kind = "ok" /\ o = "coding"
    THEN /\ pc' = [pc EXCEPT ![c] = "mid"]
         /\ local' = [local EXCEPT ![c] = [token |-> EmptyToken, oauthToken |-> r.tok]]
         /\ UNCHANGED last
    ELSE /\ pc' = [pc EXCEPT ![c] = "done"]
         /\ local' = [local EXCEPT ![c] = NoLocal]
         /\ Returns(c, o, r)

ApplySave(sv) ==
    /\ keyring' = sv.keyring
    /\ metaFile' = sv.metaFile
    /\ tokenFile' = sv.tokenFile
    /\ useKeyring' = [useKeyring EXCEPT ![TokProc] = sv.useKeyring]

\* EnsureOAuthTokenValid from tokenMutex.Lock() to its return or to the refresh grant.
\* The caller goroutines are interchangeable: they are numbered in the order in which
\* they first take the mutex.
EnsureEnter(c, o) ==
    /\ pc[c] = "idle"
    /\ \A d \in Callers : d < c => pc[d] # "idle"
    /\ MutexFree
    /\ LET ld == Stored(TokProc)
           d  == EnsureDecision(ld, now)
           sv == SaveToken(SetOAuth(ld.token, d.tok), keyring, metaFile,
                           tokenFile, ld.useKeyring, keyringUp)
       IN /\ op' = [op EXCEPT ![c] = o]
          /\ sawExpired' = (sawExpired \/ d.kind = "send" \/ (d.kind = "ok" /\ d.how = "reused"))
          /\ IF d.kind = "ok" /\ d.how = "reused"
             THEN ApplySave(sv)
             ELSE /\ UNCHANGED storeVars
                  /\ useKeyring' = [useKeyring EXCEPT ![TokProc] = ld.useKeyring]
          /\ IF d.kind = "send"
             THEN /\ pc' = [pc EXCEPT ![c] = "refreshing"]
                  /\ tokenMutex' = c
                  /\ grants' = grants + 1
                  /\ local' = [local EXCEPT ![c] = [token |-> ld.token, oauthToken |-> NilTok]]
                  /\ UNCHANGED last
             ELSE /\ EnsureEnds(c, o, IF d.kind = "ok" THEN RetOk(d.tok, d.how, 0)
                                                      ELSE RetErr(d.err, 0))
                  /\ UNCHANGED <<tokenMutex, grants>>
    /\ UNCHANGED <<badGrant, fetches, envVars, loginVars, sto, cc>>

\* tokenSource.Token() returns: error, or newToken which is stored and returned
RefreshReply(c, resp) ==
    /\ pc[c] = "refreshing"
    /\ tokenMutex' = 0
    /\ badGrant' = (badGrant \/ ~resp.ok
                    \/ ~IsValid(NewToken(local[c].token.oauth, resp, now), now))
    /\ IF ~resp.ok
       THEN /\ EnsureEnds(c, op[c], RetErr("refresh_failed", 0))
            /\ UNCHANGED <<storeVars, useKeyring>>
       ELSE LET nt == NewToken(local[c].token.oauth, resp, now)
                sv == SaveToken(SetOAuth(local[c].token, nt), keyring, metaFile,
                                tokenFile, useKeyring[TokProc], keyringUp)
            IN /\ ApplySave(sv)
               /\ EnsureEnds(c, op[c], RetOk(nt, "refreshed", 0))
    /\ UNCHANGED <<op, sawExpired, grants, fetches, envVars, loginVars, sto, cc>>

\* The coding-token endpoint's answers.  status 0 stands for a transport error
\* (client.Do returns err); body "json" decodes into CodingTokenResponse, "bad" does not;
\* token and expiresAt are the fields of the decoded body (expiresAt 0: no expires_at).
FetchStatuses == {0, 200, 204, 401, 403, 404, 500}

FetchResponses ==
    [status : FetchStatuses \ {200}, body : {"bad"}, token : {""}, expiresAt : {0}]
    \cup [status : {200}, body : {"bad"}, token : {""}, expiresAt : {0}]
    \cup [status : {200}, body : {"json"}, token : {"", CodingName(fetches)},
          expiresAt : {0} \cup ExpiryGrid]

\* Variant: every 2xx status counts as success
FetchErrorAny2xx(resp) ==
    IF resp.status = 0 THEN "fetch_failed"
    ELSE IF resp.status = 401 \/ resp.status = 403 THEN "auth_failed"
    ELSE IF resp.status = 404 THEN "not_found"
    ELSE IF resp.status < 200 \/ resp.status > 299 THEN "fetch_failed"
    ELSE IF resp.body # "json" THEN "decode_failed"
    ELSE ""

\* GetCodingToken's handling of the response status, in the order of the code
FetchError(resp) ==
    IF resp.status = 0 THEN "fetch_failed"
    ELSE IF resp.status = 401 \/ resp.status = 403 THEN "auth_failed"
    ELSE IF resp.status = 404 THEN "not_found"
    ELSE IF resp.status # 200 THEN "fetch_failed"
    ELSE IF resp.body # "json" THEN "decode_failed"
    ELSE ""

\* GetCodingToken after EnsureOAuthTokenValid returned: from the second
\* tokenMutex.Lock() to its return or to the GET
CodingEnter(c) ==
    /\ pc[c] = "mid"
    /\ MutexFree
    /\ LET ld == Stored(TokProc) IN
       /\ useKeyring' = [useKeyring EXCEPT ![TokProc] = ld.useKeyring]
       /\ IF ld.err
          THEN /\ pc' = [pc EXCEPT ![c] = "done"]
               /\ local' = [local EXCEPT ![c] = NoLocal]
               /\ Returns(c, op[c], RetErr("load_failed", 0))
               /\ UNCHANGED <<tokenMutex, fetches>>
          ELSE IF ld.token.coding.present /\ IsValid(ld.token.coding, now)
          THEN /\ pc' = [pc EXCEPT ![c] = "done"]
               /\ local' = [local EXCEPT ![c] = NoLocal]
               /\ Returns(c, op[c], RetOk(ld.token.coding, "cached", 0))
               /\ UNCHANGED <<tokenMutex, fetches>>
          ELSE /\ pc' = [pc EXCEPT ![c] = "fetching"]
               /\ local' = [local EXCEPT ![c].token = ld.token]
               /\ tokenMutex' = c
               /\ fetches' = fetches + 1
               /\ UNCHANGED last
    /\ UNCHANGED <<storeVars, op, sawExpired, badGrant, grants, envVars, loginVars, sto, cc>>

\* client.Do returns and GetCodingToken runs to its return
FetchReply(c, resp) ==
    /\ pc[c] = "fetching"
    /\ tokenMutex' = 0
    /\ pc' = [pc EXCEPT ![c] = "done"]
    /\ local' = [local EXCEPT ![c] = NoLocal]
    /\ IF FetchError(resp) # ""
       THEN /\ Returns(c, op[c], RetErr(FetchError(resp), resp.status))
            /\ UNCHANGED <<storeVars, useKeyring>>
       ELSE LET ct == TokenData(resp.token, "", "Bearer",
                                IF resp.expiresAt = 0 THEN NoExpiry ELSE resp.expiresAt)
                sv == SaveToken([local[c].token EXCEPT !.coding = ct], keyring, metaFile,
                                tokenFile, useKeyring[TokProc], keyringUp)
            IN /\ ApplySave(sv)
               /\ Returns(c, op[c], RetOk(ct, "fetched", resp.status))
    /\ UNCHANGED <<op, sawExpired, badGrant, grants, fetches, envVars, loginVars, sto, cc>>

\* Environment: a minute passes
Tick ==
    /\ now < MaxNow
    /\ now' = now + 1
    /\ UNCHANGED <<storeVars, useKeyring, tokVars, keyringUp, loginVars, sto, cc>>

\* Environment: the vault stops answering (locked keychain, no secret service)
KeyringOutage ==
    /\ keyringUp
    /\ keyringUp' = FALSE
    /\ UNCHANGED <<storeVars, useKeyring, tokVars, now, loginVars, sto, cc>>

----------------------------------------------------------------------------
(* The login command.  One OS process per invocation; a JSON-mode invocation  *)
(* of internal/cli/login.go returns at once and its work continues in the     *)
(* background `login --server-mode` process it spawns, modelled as the same   *)
(* invocation.  Interactive mode is runInteractiveLogin, which is also the    *)
(* whole of the single-function variant of the command.                       *)

Invs == 1..NInvs

\* mode        "" (not started), "interactive", "json"
\* pc          position, see the actions
\* polls       poll intervals a follower has waited
\* errBlocked  callback requests being handled whose handler sends on errChan
\* codeBlocked callback requests being handled whose code is sent on codeChan
\* stuck       handlers left blocked in their send when the listener left the select
\* shutdownReq /costa-code-cli/shutdown was requested (shutdownChan closed)
\* uk          the process's useKeyring
\* loaded      `token` in the courtesy GetCodingToken call
\* out         what the invocation reported
\* saved       it saved the token of its login
\* found       it found the port held by another invocation
\* gotCode     a request carrying this login's state and a code reached its listener
\* warned      it printed "Warning: Failed to fetch coding token"
NoInv ==
    [mode |-> "", pc |-> "idle", polls |-> 0, errBlocked |-> 0,
     codeBlocked |-> 0, stuck |-> 0, shutdownReq |-> FALSE, uk |-> TRUE, loaded |-> EmptyToken,
     out |-> "", saved |-> FALSE, found |-> FALSE, gotCode |-> FALSE, warned |-> FALSE]

\* Positions of an invocation that has bound the callback port
ListenerPcs == {"waiting", "draining", "exchanging", "courtesy_get"}

\* The process ends; its goroutines and locals are gone
Exit(r, o) ==
    [r EXCEPT !.pc = "done", !.out = o, !.polls = 0, !.errBlocked = 0,
              !.codeBlocked = 0, !.stuck = 0, !.shutdownReq = FALSE, !.loaded = EmptyToken,
              !.gotCode = FALSE]

\* The background process reports nothing: the JSON-mode invocation already has
Finish(r, o) == Exit(r, IF r.mode = "json" THEN r.out ELSE o)

LoggedIn == IsLoggedIn(keyring, metaFile, tokenFile, keyringUp)

loginFrame == UNCHANGED <<useKeyring, tokVars, envVars, sto, cc>>

\* loginCmd.RunE up to the choice of mode
RunE(i, mode) ==
    /\ inv[i].pc = "idle"
    /\ \A j \in Invs : j < i => inv[j].pc # "idle"
    /\ inv' = [inv EXCEPT ![i] =
                 IF LoggedIn
                 THEN Exit([inv[i] EXCEPT !.mode = mode], "already_logged_in")
                 ELSE [inv[i] EXCEPT !.mode = mode,
                                     !.pc = IF mode = "json" THEN "kill" ELSE "listen"]]
    /\ UNCHANGED <<port, storeVars>>
    /\ loginFrame

\* net.Listen in runInteractiveLogin: listener, or on EADDRINUSE follower up to the
\* first IsLoggedIn of waitUntilLoggedIn.  (A bind that fails for another reason
\* ends the invocation before it touches anything; it is left out.)
Listen(i) ==
    /\ inv[i].pc = "listen"
    /\ IF port = 0
       THEN /\ port' = i
            /\ inv' = [inv EXCEPT ![i] = [inv[i] EXCEPT !.pc = "waiting"]]
       ELSE /\ UNCHANGED port
            /\ inv' = [inv EXCEPT ![i] =
                         IF LoggedIn
                         THEN Exit([inv[i] EXCEPT !.found = TRUE], "success")
                         ELSE [inv[i] EXCEPT !.pc = "polling", !.found = TRUE]]
    /\ UNCHANGED storeVars
    /\ loginFrame

\* Variant: the follower's context has no deadline
CtxDoneNever(n) == FALSE

\* ctx.Done() of the follower's context.WithTimeout(loginWaitTimeout)
CtxDone(n) == n = WaitPolls

\* waitUntilLoggedIn: time.After(pollInterval) fires, next IsLoggedIn
waitUntilLoggedInPoll(i) ==
    /\ inv[i].pc = "polling"
    /\ inv[i].polls < WaitPolls
    /\ inv' = [inv EXCEPT ![i] =
                 IF LoggedIn THEN Exit(inv[i], "success")
                 ELSE [inv[i] EXCEPT !.polls = inv[i].polls + 1]]
    /\ UNCHANGED <<port, storeVars>>
    /\ loginFrame

\* waitUntilLoggedIn: ctx.Done() fires
waitUntilLoggedInTimeout(i) ==
    /\ inv[i].pc = "polling"
    /\ CtxDone(inv[i].polls)
    /\ inv' = [inv EXCEPT ![i] = Exit(inv[i], "timeout")]
    /\ UNCHANGED <<port, storeVars>>
    /\ loginFrame

\* shutdownExistingServer, then the background server process is started and the
\* JSON-mode invocation reports waiting_for_user.  Only a server-mode listener
\* serves /costa-code-cli/shutdown.
shutdownExistingServer(i) ==
    /\ inv[i].pc = "kill"
    /\ inv' = [j \in Invs |->
                 IF j = i
                 THEN [inv[i] EXCEPT !.pc = "srv_listen", !.out = "waiting_for_user",
                                     !.found = (port # 0)]
                 ELSE IF j = port /\ inv[j].mode = "json"
                 THEN [inv[j] EXCEPT !.shutdownReq = TRUE]
                 ELSE inv[j]]
    /\ UNCHANGED <<port, storeVars>>
    /\ loginFrame

\* net.Listen in runOAuthServer
runOAuthServerListen(i) ==
    /\ inv[i].pc = "srv_listen"
    /\ IF port = 0
       THEN /\ port' = i
            /\ inv' = [inv EXCEPT ![i] = [inv[i] EXCEPT !.pc = "waiting"]]
       ELSE /\ UNCHANGED port
            /\ inv' = [inv EXCEPT ![i] = Finish(inv[i], "bind_failed")]
    /\ UNCHANGED storeVars
    /\ loginFrame

\* Variant: the handler does not compare the state parameter
CallbackRejectedNoState(stateOk, code) == code = ""

\* The handler's checks: state differs from this login's state, or no code
CallbackRejected(stateOk, code) == ~stateOk \/ code = ""

\* A request to /costa-code-cli/callback reaches the listener holding the port.
\* runInteractiveLogin's handler sends on errChan or codeChan itself and stays
\* blocked until the send is received; runOAuthServer's handler answers 400 or
\* hands the code to a goroutine and returns.
CallbackHandler(i, stateOk, code) ==
    /\ port = i
    /\ inv[i].errBlocked + inv[i].codeBlocked < MaxCallbacks
    /\ LET r == [inv[i] EXCEPT !.gotCode = inv[i].gotCode \/ (stateOk /\ code # "")]
           bad == CallbackRejected(stateOk, code)
       IN inv' = [inv EXCEPT ![i] =
                    IF bad /\ r.mode = "interactive"
                    THEN [r EXCEPT !.errBlocked = r.errBlocked + 1]
                    ELSE IF bad THEN r
                    ELSE [r EXCEPT !.codeBlocked = r.codeBlocked + 1]]
    /\ UNCHANGED <<port, storeVars>>
    /\ loginFrame

\* Handlers that have not returned: what http.Server.Shutdown waits for.  Only
\* runInteractiveLogin's handlers send on the channels themselves.
ActiveHandlers(r) == IF r.mode = "interactive" THEN r.errBlocked + r.codeBlocked ELSE 0

\* The listener leaves the select for position p, having received from n handlers:
\* nothing receives from its channels any more.  The handlers left behind count
\* only where server.Shutdown waits for them without a deadline.
Left(r, p, n) ==
    [r EXCEPT !.pc = p, !.shutdownReq = FALSE, !.errBlocked = 0, !.codeBlocked = 0,
              !.stuck = IF p = "draining" THEN ActiveHandlers(r) - n ELSE 0,
              !.gotCode = (p = "exchanging") /\ r.gotCode]

\* What GetCodingToken does before its GET, for the bundle ld it loads: TRUE when
\* the GET is sent
CourtesySends(ld) ==
    /\ EnsureDecision(ld, now).kind = "ok"
    /\ EnsureDecision(ld, now).how = "valid"
    /\ ~(ld.token.coding.present /\ IsValid(ld.token.coding, now))

\* select, case code = <-codeChan; then server.Shutdown, which closes the listening
\* socket first.  It returns after 5 s at the latest in runInteractiveLogin, and in
\* runOAuthServer no handler is blocked.  config.Exchange is called.
SelectCode(i) ==
    /\ inv[i].pc = "waiting"
    /\ inv[i].codeBlocked > 0
    /\ inv' = [inv EXCEPT ![i] = Left(inv[i], "exchanging", 1)]
    /\ port' = 0
    /\ UNCHANGED storeVars
    /\ loginFrame

\* select, case err := <-errChan; server.Shutdown(context.Background()) begins
SelectErr(i) ==
    /\ inv[i].pc = "waiting"
    /\ inv[i].errBlocked > 0
    /\ inv' = [inv EXCEPT ![i] =
                 Left([inv[i] EXCEPT !.out = "callback_error"], "draining", 1)]
    /\ port' = 0
    /\ UNCHANGED storeVars
    /\ loginFrame

\* select, case <-time.After(loginWaitTimeout); server.Shutdown(context.Background())
\* begins
SelectTimeout(i) ==
    /\ inv[i].pc = "waiting"
    /\ inv' = [inv EXCEPT ![i] =
                 Left([inv[i] EXCEPT !.out = IF inv[i].mode = "json" THEN inv[i].out
                                              ELSE "timeout"], "draining", 0)]
    /\ port' = 0
    /\ UNCHANGED storeVars
    /\ loginFrame

\* runOAuthServer's select, case <-shutdownChan; server.Shutdown begins
SelectShutdown(i) ==
    /\ inv[i].pc = "waiting"
    /\ inv[i].shutdownReq
    /\ inv' = [inv EXCEPT ![i] = Left(inv[i], "draining", 0)]
    /\ port' = 0
    /\ UNCHANGED storeVars
    /\ loginFrame

\* server.Shutdown(context.Background()) returns once no handler is active, and the
\* invocation returns
ShutdownReturns(i) ==
    /\ inv[i].pc = "draining"
    /\ inv[i].stuck = 0
    /\ inv' = [inv EXCEPT ![i] = Exit(inv[i], inv[i].out)]
    /\ UNCHANGED <<port, storeVars>>
    /\ loginFrame

\* The provider's answers to the authorization-code grant (expiresIn 0: none given)
ExchangeResponses ==
    [ok : {FALSE}, expiresIn : {0}] \cup [ok : {TRUE}, expiresIn : {0, 9}]

\* The token config.Exchange returns to invocation i
LoginToken(i, resp) ==
    TokenData("lt" \o ToString(i), "lr" \o ToString(i), "Bearer",
              IF resp.expiresIn = 0 THEN NoExpiry ELSE now + resp.expiresIn)

\* config.Exchange returns; on success SaveToken(&auth.Token{OAuth: ...}), then the
\* courtesy auth.GetCodingToken(ctx) up to its return or to its GET
Exchange(i, resp) ==
    /\ inv[i].pc = "exchanging"
    /\ IF ~resp.ok
       THEN /\ inv' = [inv EXCEPT ![i] = Finish(inv[i], "exchange_failed")]
            /\ UNCHANGED storeVars
       ELSE LET sv == SaveToken([EmptyToken EXCEPT !.oauth = LoginToken(i, resp)],
                                keyring, metaFile, tokenFile, inv[i].uk, keyringUp)
                ld == LoadToken(sv.keyring, sv.metaFile, sv.tokenFile, sv.useKeyring,
                                keyringUp)
                r  == [inv[i] EXCEPT !.saved = TRUE, !.uk = ld.useKeyring]
            IN /\ keyring' = sv.keyring
               /\ metaFile' = sv.metaFile
               /\ tokenFile' = sv.tokenFile
               /\ inv' = [inv EXCEPT ![i] =
                            IF CourtesySends(ld)
                            THEN [r EXCEPT !.pc = "courtesy_get", !.loaded = ld.token]
                            ELSE Finish(r, "success")]
    /\ UNCHANGED port
    /\ loginFrame

CourtesyResponses ==
    [status : {500}, body : {"bad"}, token : {""}, expiresAt : {0}]
    \cup [status : {200}, body : {"json"}, token : {"ct"}, expiresAt : {9}]

\* The warning runInteractiveLogin prints for a failed GetCodingToken; the
\* background server process ignores the error
Warn(r) == [r EXCEPT !.warned = (r.mode = "interactive")]

\* Variant: the error of GetCodingToken is returned as the login's error
CourtesyReplyFatal(i, resp) ==
    /\ inv[i].pc = "courtesy_get"
    /\ IF FetchError(resp) # ""
       THEN /\ UNCHANGED storeVars
            /\ inv' = [inv EXCEPT ![i] = Finish(Warn(inv[i]), "coding_token_failed")]
       ELSE LET ct == TokenData(resp.token, "", "Bearer", resp.expiresAt)
                sv == SaveToken([inv[i].loaded EXCEPT !.coding = ct], keyring, metaFile,
                                tokenFile, inv[i].uk, keyringUp)
            IN /\ keyring' = sv.keyring
               /\ metaFile' = sv.metaFile
               /\ tokenFile' = sv.tokenFile
               /\ inv' = [inv EXCEPT ![i] = Finish(inv[i], "success")]
    /\ UNCHANGED port
    /\ loginFrame

\* The courtesy GET is answered: the coding token is saved, or the failure is only
\* a warning; the login reports success
CourtesyReply(i, resp) ==
    /\ inv[i].pc = "courtesy_get"
    /\ IF FetchError(resp) # ""
       THEN /\ UNCHANGED storeVars
            /\ inv' = [inv EXCEPT ![i] = Finish(Warn(inv[i]), "success")]
       ELSE LET ct == TokenData(resp.token, "", "Bearer", resp.expiresAt)
                sv == SaveToken([inv[i].loaded EXCEPT !.coding = ct], keyring, metaFile,
                                tokenFile, inv[i].uk, keyringUp)
            IN /\ keyring' = sv.keyring
               /\ metaFile' = sv.metaFile
               /\ tokenFile' = sv.tokenFile
               /\ inv' = [inv EXCEPT ![i] = Finish(inv[i], "success")]
    /\ UNCHANGED port
    /\ loginFrame

----------------------------------------------------------------------------
(* Direct calls of the store by one process (TokProc), one at a time, while   *)
(* another process reads the store and the vault comes and goes.  os.WriteFile *)
(* opens the file with O_TRUNC and writes afterwards: SaveToken is two steps,  *)
(* in between the file exists and is empty.                                    *)

\* call   the last call returned: name, argument (a bundle; for IsExpiredWithSkew
\*        the token in its primary slot, and skew), error, token returned, boolean
\*        returned, whether the call went to the vault, and for SaveToken whether
\*        its vault write failed
\* torn   "" or the file opened for writing by the SaveToken in progress
\* pend   that SaveToken: its argument, what the files will hold, whether its
\*        vault write failed
\* rd     what the last LoadToken of the other process met: "" (none yet),
\*        "whole" (a bundle), "none" (nothing stored), "torn" (a file that did not
\*        parse)
NoCall ==
    [name |-> "", arg |-> EmptyToken, skew |-> 0, err |-> FALSE, token |-> EmptyToken,
     ok |-> FALSE, vault |-> FALSE, fallback |-> FALSE, probes |-> <<>>]

NoPend ==
    [arg |-> EmptyToken, metaFile |-> NoMetaFile, tokenFile |-> NoTokenFile,
     vault |-> FALSE, vaultFailed |-> FALSE]

NoSto == [call |-> NoCall, torn |-> "", pend |-> NoPend, rd |-> ""]

\* A file just opened with O_TRUNC
TruncatedMetaFile  == [NoMetaFile EXCEPT !.exists = TRUE]
TruncatedTokenFile == [NoTokenFile EXCEPT !.exists = TRUE]

\* Bundles the process saves: what login saves, what GetCodingToken saves, a
\* service token alone, a primary token without refresh token and expiry, and a
\* primary token whose provider sent no token_type
SaveBundles ==
    {[EmptyToken EXCEPT !.oauth = TokenData("at1", "rt1", "Bearer", 9)],
     [EmptyToken EXCEPT !.oauth = TokenData("at1", "rt1", "Bearer", 9),
                        !.coding = TokenData("ct1", "", "Bearer", 8)],
     [EmptyToken EXCEPT !.coding = TokenData("ct2", "", "Bearer", 8)],
     [EmptyToken EXCEPT !.oauth = TokenData("at2", "", "Bearer", NoExpiry)],
     [EmptyToken EXCEPT !.oauth = TokenData("at3", "rt3", "", 9)]}

storeFrame == UNCHANGED <<tokVars, loginVars, now, cc>>

\* SaveToken up to os.WriteFile's open: the keyring.Set calls are done, or have
\* failed and useKeyring is false; the file that takes the bundle is empty
SaveTokenOpen(b) ==
    /\ sto.torn = ""
    /\ LET uk == useKeyring[TokProc]
           sv == SaveToken(b, keyring, metaFile, tokenFile, uk, keyringUp)
           failed == uk /\ saveTokenToKeyring(b, keyring, metaFile, keyringUp).err
           toFile == ~uk \/ failed
       IN /\ keyring' = sv.keyring
          /\ metaFile' = IF toFile THEN metaFile ELSE TruncatedMetaFile
          /\ tokenFile' = IF toFile THEN TruncatedTokenFile ELSE tokenFile
          /\ useKeyring' = [useKeyring EXCEPT ![TokProc] = sv.useKeyring]
          /\ sto' = [sto EXCEPT !.torn = IF toFile THEN "token" ELSE "meta",
                                !.pend = [arg |-> b,
                                          metaFile |-> sv.metaFile,
                                          tokenFile |-> sv.tokenFile,
                                          vault |-> uk, vaultFailed |-> failed]]
    /\ UNCHANGED keyringUp
    /\ storeFrame

\* os.WriteFile writes and closes; SaveToken returns
SaveTokenClose ==
    /\ sto.torn # ""
    /\ metaFile' = sto.pend.metaFile
    /\ tokenFile' = sto.pend.tokenFile
    /\ sto' = [sto EXCEPT !.torn = "", !.pend = NoPend,
                          !.call = [NoCall EXCEPT !.name = "SaveToken",
                                                  !.arg = sto.pend.arg,
                                                  !.vault = sto.pend.vault,
                                                  !.fallback = sto.pend.vaultFailed]]
    /\ UNCHANGED <<keyring, useKeyring, keyringUp>>
    /\ storeFrame

LoadTokenCall ==
    /\ sto.torn = ""
    /\ LET uk == useKeyring[TokProc]
           ld == LoadToken(keyring, metaFile, tokenFile, uk, keyringUp)
       IN /\ useKeyring' = [useKeyring EXCEPT ![TokProc] = ld.useKeyring]
          /\ sto' = [sto EXCEPT !.call = [NoCall EXCEPT !.name = "LoadToken",
                                                        !.err = ld.err,
                                                        !.token = ld.token,
                                                        !.vault = ~tokenFile.exists /\ uk]]
    /\ UNCHANGED <<storeVars, keyringUp>>
    /\ storeFrame

DeleteTokenCall ==
    /\ sto.torn = ""
    /\ LET dl == DeleteToken(keyring, metaFile, tokenFile, keyringUp)
       IN /\ keyring' = dl.keyring
          /\ metaFile' = dl.metaFile
          /\ tokenFile' = dl.tokenFile
          /\ sto' = [sto EXCEPT !.call = [NoCall EXCEPT !.name = "DeleteToken",
                                                        !.err = dl.err,
                                                        !.vault = TRUE]]
    /\ UNCHANGED <<useKeyring, keyringUp>>
    /\ storeFrame

IsLoggedInCall ==
    /\ sto.torn = ""
    /\ sto' = [sto EXCEPT !.call =
                 [NoCall EXCEPT !.name = "IsLoggedIn",
                                !.ok = LoggedIn,
                                !.probes = IsLoggedInProbes(keyring, metaFile, tokenFile,
                                                            keyringUp)]]
    /\ UNCHANGED <<storeVars, useKeyring, keyringUp>>
    /\ storeFrame

\* LoadToken in another process, at any moment.  json.Unmarshal fails on the empty
\* file: of the token file when it is there, else of the metadata file.
ReaderLoadToken ==
    /\ sto' = [sto EXCEPT !.rd =
                 IF sto.torn = "token" \/ (sto.torn = "meta" /\ ~tokenFile.exists)
                 THEN "torn"
                 ELSE IF LoadToken(keyring, metaFile, tokenFile, TRUE, keyringUp).err
                 THEN "none"
                 ELSE "whole"]
    /\ UNCHANGED <<storeVars, useKeyring, keyringUp>>
    /\ storeFrame

\* Environment: the vault answers again
KeyringRecovers ==
    /\ ~keyringUp
    /\ keyringUp' = TRUE
    /\ UNCHANGED <<storeVars, useKeyring, sto>>
    /\ storeFrame

\* t.IsExpiredWithSkew(skew) on a token expiring at e
IsExpiredWithSkewCall(e, skew) ==
    /\ sto' = [sto EXCEPT !.call =
                 [NoCall EXCEPT !.name = "IsExpiredWithSkew",
                                !.arg = [EmptyToken EXCEPT
                                           !.oauth = TokenData("test", "", "Bearer", e)],
                                !.skew = skew,
                                !.ok = IsExpiredWithSkew(TokenData("test", "", "Bearer", e),
                                                         skew, now)]]
    /\ UNCHANGED <<storeVars, useKeyring, keyringUp>>
    /\ storeFrame

\* t.IsValid()
IsValidCall(td) ==
    /\ sto' = [sto EXCEPT !.call =
                 [NoCall EXCEPT !.name = "IsValid",
                                !.arg = [EmptyToken EXCEPT !.oauth = td],
                                !.ok = IsValid(td, now)]]
    /\ UNCHANGED <<storeVars, useKeyring, keyringUp>>
    /\ storeFrame

----------------------------------------------------------------------------
(* Claude Code settings: internal/integrations/claudecode and            *)
(* `costa setup claude-code`                                             *)

\* Significand width of a float64: encoding/json decodes every JSON number of a
\* map[string]any into a float64
MantissaBits == 53

\* JSON values.  A number is its binary digits, most significant first.
Str(s)    == [kind |-> "string", str |-> s, num |-> <<>>]
Bool(b)   == [kind |-> "bool", str |-> IF b THEN "true" ELSE "false", num |-> <<>>]
Num(bits) == [kind |-> "number", str |-> "", num |-> bits]

RECURSIVE Zeros(_)
Zeros(n) == IF n = 0 THEN <<>> ELSE <<0>> \o Zeros(n - 1)

RECURSIVE Increment(_)
Increment(bits) ==
    IF bits = <<>> THEN <<1>>
    ELSE IF bits[Len(bits)] = 0
         THEN SubSeq(bits, 1, Len(bits) - 1) \o <<1>>
         ELSE Increment(SubSeq(bits, 1, Len(bits) - 1)) \o <<0>>

\* The float64 nearest to an integer (ties to even)
Float64(bits) ==
    IF Len(bits) <= MantissaBits THEN bits
    ELSE LET top  == SubSeq(bits, 1, MantissaBits)
             rest == SubSeq(bits, MantissaBits + 1, Len(bits))
             half == <<1>> \o Zeros(Len(rest) - 1)
             up   == \/ rest[1] = 1 /\ rest # half
                     \/ rest = half /\ top[MantissaBits] = 1
         IN (IF up THEN Increment(top) ELSE top) \o Zeros(Len(rest))

\* json.Unmarshal of one value into `any`
Decode(v) == IF v.kind = "number" THEN Num(Float64(v.num)) ELSE v

EmptyMap == [k \in {} |-> Str("")]

\* A file at the settings path: absent, not a JSON object, or an object with its
\* top-level keys other than env, and env (absent, not an object, or an object)
NoSettingsFile == [kind |-> "absent", top |-> EmptyMap, envKind |-> "absent", env |-> EmptyMap]
InvalidSettingsFile == [NoSettingsFile EXCEPT !.kind = "invalid"]
SettingsObject(top, envKind, env) ==
    [kind |-> "object", top |-> top, envKind |-> envKind, env |-> env]

loadJSONFile(file) ==
    IF file.kind = "absent" THEN [err |-> "notexist", result |-> NoSettingsFile]
    ELSE IF file.kind = "invalid" THEN [err |-> "invalid", result |-> NoSettingsFile]
    ELSE [err |-> "",
          result |-> SettingsObject([k \in DOMAIN file.top |-> Decode(file.top[k])],
                                    file.envKind,
                                    [k \in DOMAIN file.env |-> Decode(file.env[k])])]

\* json.MarshalIndent of the map, written to path.tmp and renamed over path
writeJSONFile(data) == SettingsObject(data.top, data.envKind, data.env)

BaseURL == "https://ai.costa.app/api"

buildDesiredSettings(token) ==
    SettingsObject(
        "model" :> Str("costa/auto") @@ "alwaysThinkingEnabled" :> Bool(TRUE),
        "map",
        "ANTHROPIC_BASE_URL" :> Str(BaseURL)
        @@ "ANTHROPIC_AUTH_TOKEN" :> Str(token)
        @@ "ANTHROPIC_DEFAULT_TEXT_MODEL" :> Str("costa/auto")
        @@ "ANTHROPIC_DEFAULT_MESSAGES_MODEL" :> Str("costa/auto")
        @@ "ANTHROPIC_DEFAULT_TOOL_USE_MODEL" :> Str("costa/auto")
        @@ "CLAUDE_CODE_SUBAGENT_MODEL" :> Str("costa/auto")
        @@ "DISABLE_PROMPT_CACHING" :> Bool(TRUE))

\* The keys of `desired` missing from `m` or held with another value
Differing(m, desired) == {k \in DOMAIN desired : k \notin DOMAIN m \/ m[k] # desired[k]}

\* `m` with the differing keys of `desired` set to the desired value
Overlay(m, desired) ==
    LET set == Differing(m, desired)
    IN [k \in DOMAIN m \cup set |-> IF k \in set THEN desired[k] ELSE m[k]]

mergeSettings(existing, desired, refreshTokenOnly) ==
    LET tokenOnly == [k \in {"ANTHROPIC_AUTH_TOKEN"} |-> desired.env[k]]
        hasEnv    == existing.envKind = "map"
        env       == IF hasEnv THEN existing.env ELSE EmptyMap
    IN IF refreshTokenOnly
       THEN [merged |-> SettingsObject(existing.top, "map",
                                       IF hasEnv THEN Overlay(env, tokenOnly) ELSE tokenOnly),
             updatedTop |-> {},
             updatedEnv |-> IF hasEnv THEN Differing(env, tokenOnly)
                            ELSE {"ANTHROPIC_AUTH_TOKEN"}]
       ELSE [merged |-> SettingsObject(Overlay(existing.top, desired.top), "map",
                                       Overlay(env, desired.env)),
             updatedTop |-> Differing(existing.top, desired.top),
             updatedEnv |-> Differing(env, desired.env)]

\* createBackup: a copy of the file's bytes under a timestamped name; nothing for a
\* file that does not exist
createBackup(file, backups) ==
    IF file.kind = "absent" THEN [path |-> FALSE, backups |-> backups]
    ELSE [path |-> TRUE, backups |-> backups \cup {file}]

\* What Apply meets outside the settings file: whether `claude` is on the PATH and
\* what auth.GetCodingToken answers
Worlds == {[installed |-> TRUE, fetched |-> "new-token"],
           [installed |-> FALSE, fetched |-> ""]}

ApplyOpts == [TokenOverride : {"", "new-token"}, RefreshTokenOnly : BOOLEAN,
              DryRun : BOOLEAN, RequireInstalled : BOOLEAN]

ApplyResult(err, changed, backup, file, backups) ==
    [err |-> err, Changed |-> changed, BackupPath |-> backup, file |-> file,
     backups |-> backups]

\* (*ClaudeCode).Apply on the settings file and the backup directory
Apply(file, backups, opts, world) ==
    LET loaded   == loadJSONFile(file)
        existing == loaded.result
        token    == IF opts.TokenOverride # "" THEN opts.TokenOverride ELSE world.fetched
        m        == mergeSettings(existing, buildDesiredSettings(token), opts.RefreshTokenOnly)
        changed  == m.updatedTop # {} \/ m.updatedEnv # {}
        bak      == createBackup(file, backups)
    IN IF ~world.installed /\ opts.RequireInstalled
         THEN ApplyResult("not installed", FALSE, FALSE, file, backups)
       ELSE IF loaded.err = "invalid"
         THEN ApplyResult("load", FALSE, FALSE, file, backups)
       ELSE IF token = ""
         THEN ApplyResult("token", FALSE, FALSE, file, backups)
       ELSE IF ~changed
         THEN ApplyResult("", FALSE, FALSE, file, backups)
       ELSE IF opts.DryRun
         THEN ApplyResult("", TRUE, FALSE, file, backups)
       ELSE ApplyResult("", TRUE, bak.path, writeJSONFile(m.merged), bak.backups)

\* Lines typed at the prompts, as characters
Spaces == {" ", "\n"}
ToLowerChar(c) == IF c = "N" THEN "n" ELSE IF c = "O" THEN "o" ELSE IF c = "Y" THEN "y" ELSE c
ToLower(s) == [i \in 1..Len(s) |-> ToLowerChar(s[i])]

RECURSIVE TrimLeft(_)
TrimLeft(s) == IF s # <<>> /\ Head(s) \in Spaces THEN TrimLeft(Tail(s)) ELSE s

RECURSIVE TrimRight(_)
TrimRight(s) ==
    IF s # <<>> /\ s[Len(s)] \in Spaces THEN TrimRight(SubSeq(s, 1, Len(s) - 1)) ELSE s

TrimSpace(s) == TrimRight(TrimLeft(s))

\* inputReader.ReadString('\n'): the next line with its newline, or what is left
\* at end of input
ReadString(stdin) ==
    IF stdin = <<>> THEN [response |-> <<>>, rest |-> <<>>]
    ELSE [response |-> Head(stdin) \o <<"\n">>, rest |-> Tail(stdin)]

DeclinedNever(response) == FALSE

\* resp == "n" || resp == "no" on the trimmed, lower-cased response
Declined(response) ==
    LET resp == ToLower(TrimSpace(response))
    IN resp = <<"n">> \/ resp = <<"n", "o">>

SetupFlags ==
    [token : {"", "new-token"}, force : BOOLEAN, dryRun : BOOLEAN,
     refreshTokenOnly : BOOLEAN, requireInstalled : {FALSE},
     enableStatusLine : {FALSE}, skipStatusLine : BOOLEAN]
    \cup [token : {"new-token"}, force : {TRUE}, dryRun : {FALSE},
          refreshTokenOnly : {FALSE}, requireInstalled : {TRUE},
          enableStatusLine : {FALSE}, skipStatusLine : {TRUE}]
    \cup [token : {"new-token"}, force : {FALSE}, dryRun : {FALSE},
          refreshTokenOnly : {FALSE}, requireInstalled : {FALSE},
          enableStatusLine : {TRUE}, skipStatusLine : {FALSE}]

Stdins == {<<>>, <<<<"n">>>>, <<<<"y">>, <<"n">>>>, <<<<"y">>, <<" ", "N", "o">>>>}

NoRun == [name |-> "", update |-> FALSE, dryRun |-> FALSE, refreshTokenOnly |-> FALSE,
          asked |-> FALSE, answer |-> <<>>, err |-> "", changed |-> FALSE,
          backup |-> FALSE, wrote |-> FALSE]

NoCc == [settings |-> NoSettingsFile, backups |-> {}, run |-> NoRun]

\* runSetupClaudeCode with the flags parsed into the ccSetup variables
runSetupClaudeCode(file, backups, flags, stdin, world) ==
    LET opts      == [TokenOverride |-> flags.token, RefreshTokenOnly |-> flags.refreshTokenOnly,
                      DryRun |-> flags.dryRun, RequireInstalled |-> flags.requireInstalled]
        planOpts  == [opts EXCEPT !.DryRun = TRUE]
        writeOpts == [opts EXCEPT !.DryRun = FALSE]
        plan      == Apply(file, backups, planOpts, world)
        status    == ~flags.skipStatusLine /\ ~flags.enableStatusLine
                     /\ ~flags.refreshTokenOnly
        line1     == ReadString(stdin)
        replan    == status /\ ~Declined(line1.response)
        newPlan   == Apply(file, backups, planOpts, world)
        line2     == ReadString(IF status THEN line1.rest ELSE stdin)
        result    == Apply(file, backups, writeOpts, world)
        run       == [NoRun EXCEPT !.name = "setup", !.dryRun = flags.dryRun,
                                   !.refreshTokenOnly = flags.refreshTokenOnly]
        stop(err, changed) ==
            [run |-> [run EXCEPT !.err = err, !.changed = changed],
             file |-> file, backups |-> backups]
    IN IF loadJSONFile(file).err = "invalid" THEN stop("status", FALSE)
       ELSE IF ~world.installed /\ flags.requireInstalled THEN stop("not installed", FALSE)
       ELSE IF plan.err # "" THEN stop(plan.err, FALSE)
       ELSE IF ~plan.Changed THEN stop("", FALSE)
       ELSE IF flags.dryRun THEN stop("", TRUE)
       ELSE IF replan /\ newPlan.err # "" THEN stop(newPlan.err, TRUE)
       ELSE IF ~flags.force /\ Declined(line2.response)
         THEN [run |-> [run EXCEPT !.asked = TRUE, !.answer = line2.response,
                                   !.changed = TRUE],
               file |-> file, backups |-> backups]
       ELSE [run |-> [run EXCEPT !.asked = ~flags.force,
                                 !.answer = IF flags.force THEN <<>> ELSE line2.response,
                                 !.err = result.err,
                                 !.changed = result.Changed, !.backup = result.BackupPath,
                                 !.wrote = (result.err = "" /\ result.Changed)],
             file |-> result.file, backups |-> result.backups]

ccFrame == UNCHANGED <<storeVars, useKeyring, tokVars, envVars, loginVars, sto>>

\* `costa setup claude-code [flags]` with the lines on standard input
SetupClaudeCode(flags, stdin, world) ==
    LET r == runSetupClaudeCode(cc.settings, cc.backups, flags, stdin, world)
    IN /\ cc' = [settings |-> r.file, backups |-> r.backups, run |-> r.run]
       /\ ccFrame

\* `costa setup claude-code --update`: the command registers no such flag, and
\* cobra returns "unknown flag" without calling RunE
SetupClaudeCodeUpdate ==
    /\ cc' = [cc EXCEPT !.run = [NoRun EXCEPT !.name = "setup", !.update = TRUE,
                                              !.err = "unknown flag"]]
    /\ ccFrame

\* integration.Apply(ctx, opts) called directly
ApplyCall(opts, world) ==
    LET r == Apply(cc.settings, cc.backups, opts, world)
    IN /\ cc' = [settings |-> r.file, backups |-> r.backups,
                 run |-> [NoRun EXCEPT !.name = "Apply", !.dryRun = opts.DryRun,
                                       !.refreshTokenOnly = opts.RefreshTokenOnly,
                                       !.err = r.err, !.changed = r.Changed,
                                       !.backup = r.BackupPath,
                                       !.wrote = (r.err = "" /\ r.Changed /\ ~opts.DryRun)]]
       /\ ccFrame

----------------------------------------------------------------------------
(* Initial stores: what an earlier invocation left behind *)

InitOAuth ==
    {NilTok, TokenData("at0", "", "Bearer", 0)}
    \cup {TokenData("at0", "rt0", "Bearer", e) : e \in {0, 1, 3, 6}}

InitCoding ==
    {NilTok} \cup {TokenData("ct0", "", "Bearer", e) : e \in {0, 6}}

InitBundles ==
    {[oauth |-> o, coding |-> c, cli |-> NilTok] : o \in InitOAuth, c \in InitCoding}

\* The store after SaveToken(b) on an empty store, by a process in vault mode (vault
\* answering) or in file mode; nothing stored when the bundle has no slot.
InitStoreOf(b, mode) ==
    IF ~b.oauth.present /\ ~b.coding.present
    THEN [err |-> FALSE, keyring |-> NoKeyring, metaFile |-> NoMetaFile,
          tokenFile |-> NoTokenFile, useKeyring |-> TRUE]
    ELSE SaveToken(b, NoKeyring, NoMetaFile, NoTokenFile, mode, TRUE)

Init ==
    /\ \E b \in InitBundles, mode \in BOOLEAN :
         /\ keyring = InitStoreOf(b, mode).keyring
         /\ metaFile = InitStoreOf(b, mode).metaFile
         /\ tokenFile = InitStoreOf(b, mode).tokenFile
    /\ useKeyring = [p \in {TokProc} |-> TRUE]
    /\ keyringUp = TRUE
    /\ now = 0
    /\ tokenMutex = 0
    /\ pc = [c \in Callers |-> "idle"]
    /\ op = [c \in Callers |-> ""]
    /\ local = [c \in Callers |-> NoLocal]
    /\ sawExpired = FALSE
    /\ badGrant = FALSE
    /\ last = NoRet
    /\ grants = 0
    /\ fetches = 0
    /\ inv = [i \in Invs |-> NoInv]
    /\ port = 0
    /\ sto = NoSto
    /\ cc = NoCc

Next ==
    \/ \E c \in Callers, o \in {"ensure", "coding"} : EnsureEnter(c, o)
    \/ \E c \in Callers : \E resp \in RefreshResponses : RefreshReply(c, resp)
    \/ \E c \in Callers : CodingEnter(c)
    \/ \E c \in Callers : \E resp \in FetchResponses : FetchReply(c, resp)
    \/ Tick
    \/ KeyringOutage

vars == <<keyring, keyringUp, metaFile, tokenFile, useKeyring, now, tokenMutex, pc, op,
          local, last, sawExpired, badGrant, grants, fetches, inv, port, sto, cc>>

Spec == Init /\ [][Next]_vars

----------------------------------------------------------------------------
(* Concurrent login invocations on one host *)

\* Nothing stored and the vault answering; or an earlier login's bundle in the
\* vault, which answers or not
InitLoginStores ==
    {[store |-> InitStoreOf(EmptyToken, TRUE), up |-> TRUE]}
    \cup {[store |-> InitStoreOf([EmptyToken EXCEPT
                                   !.oauth = TokenData("at0", "rt0", "Bearer", 6)], TRUE),
           up |-> u] : u \in BOOLEAN}

InitLogin ==
    /\ \E st \in InitLoginStores :
         /\ keyring = st.store.keyring
         /\ metaFile = st.store.metaFile
         /\ tokenFile = st.store.tokenFile
         /\ keyringUp = st.up
    /\ useKeyring = [p \in {TokProc} |-> TRUE]
    /\ now = 0
    /\ tokenMutex = 0
    /\ pc = [c \in Callers |-> "idle"]
    /\ op = [c \in Callers |-> ""]
    /\ local = [c \in Callers |-> NoLocal]
    /\ sawExpired = FALSE
    /\ badGrant = FALSE
    /\ last = NoRet
    /\ grants = 0
    /\ fetches = 0
    /\ inv = [i \in Invs |-> NoInv]
    /\ port = 0
    /\ sto = NoSto
    /\ cc = NoCc

\* The steps invocation i takes by itself once started (the operating system
\* schedules every process; timers fire)
Proceed(i) ==
    \/ Listen(i)
    \/ waitUntilLoggedInPoll(i)
    \/ waitUntilLoggedInTimeout(i)
    \/ shutdownExistingServer(i)
    \/ runOAuthServerListen(i)
    \/ SelectCode(i)
    \/ SelectErr(i)
    \/ SelectTimeout(i)
    \/ SelectShutdown(i)
    \/ ShutdownReturns(i)

NextLogin ==
    \/ \E i \in Invs, mode \in {"interactive", "json"} : RunE(i, mode)
    \/ \E i \in Invs : Listen(i)
    \/ \E i \in Invs : waitUntilLoggedInPoll(i)
    \/ \E i \in Invs : waitUntilLoggedInTimeout(i)
    \/ \E i \in Invs : shutdownExistingServer(i)
    \/ \E i \in Invs : runOAuthServerListen(i)
    \/ \E i \in Invs, stateOk \in BOOLEAN, code \in {"", "code"} :
         CallbackHandler(i, stateOk, code)
    \/ \E i \in Invs : SelectCode(i)
    \/ \E i \in Invs : SelectErr(i)
    \/ \E i \in Invs : SelectTimeout(i)
    \/ \E i \in Invs : SelectShutdown(i)
    \/ \E i \in Invs : ShutdownReturns(i)
    \/ \E i \in Invs : \E resp \in ExchangeResponses : Exchange(i, resp)
    \/ \E i \in Invs : \E resp \in CourtesyResponses : CourtesyReply(i, resp)

SpecLogin ==
    InitLogin /\ [][NextLogin]_vars /\ \A i \in Invs : WF_vars(Proceed(i))

----------------------------------------------------------------------------
(* The store called directly: nothing stored at first, the vault answering *)

InitStore ==
    /\ keyring = NoKeyring
    /\ metaFile = NoMetaFile
    /\ tokenFile = NoTokenFile
    /\ keyringUp = TRUE
    /\ useKeyring = [p \in {TokProc} |-> TRUE]
    /\ now = 0
    /\ tokenMutex = 0
    /\ pc = [c \in Callers |-> "idle"]
    /\ op = [c \in Callers |-> ""]
    /\ local = [c \in Callers |-> NoLocal]
    /\ sawExpired = FALSE
    /\ badGrant = FALSE
    /\ last = NoRet
    /\ grants = 0
    /\ fetches = 0
    /\ inv = [i \in Invs |-> NoInv]
    /\ port = 0
    /\ sto = NoSto
    /\ cc = NoCc

\* Token files of the versions that wrote the token to the cli field: that field
\* alone, or with a primary token
LegacyTokenFiles ==
    {[exists |-> TRUE,
      data |-> [EmptyToken EXCEPT !.cli = TokenData("cli0", "", "Bearer", 7), !.oauth = o]] :
       o \in {NilTok, TokenData("at0", "rt0", "Bearer", 6)}}

\* As InitStore, with a token file left by such a version
InitStoreLegacy ==
    /\ keyring = NoKeyring
    /\ metaFile = NoMetaFile
    /\ tokenFile \in LegacyTokenFiles
    /\ keyringUp = TRUE
    /\ useKeyring = [p \in {TokProc} |-> TRUE]
    /\ now = 0
    /\ tokenMutex = 0
    /\ pc = [c \in Callers |-> "idle"]
    /\ op = [c \in Callers |-> ""]
    /\ local = [c \in Callers |-> NoLocal]
    /\ sawExpired = FALSE
    /\ badGrant = FALSE
    /\ last = NoRet
    /\ grants = 0
    /\ fetches = 0
    /\ inv = [i \in Invs |-> NoInv]
    /\ port = 0
    /\ sto = NoSto
    /\ cc = NoCc

\* What callers pass to SaveToken after LoadToken: the bundle loaded, as it is or
\* with one slot replaced (EnsureOAuthTokenValid, GetCodingToken)
LoadedBundles ==
    IF sto.call.name = "LoadToken" /\ ~sto.call.err
    THEN {sto.call.token,
          [sto.call.token EXCEPT !.coding = TokenData("ct1", "", "Bearer", 8)],
          [sto.call.token EXCEPT !.oauth = TokenData("at1", "rt1", "Bearer", 9)]}
    ELSE {}

NextStore ==
    \/ \E b \in SaveBundles \cup LoadedBundles : SaveTokenOpen(b)
    \/ SaveTokenClose
    \/ LoadTokenCall
    \/ DeleteTokenCall
    \/ IsLoggedInCall
    \/ ReaderLoadToken
    \/ KeyringOutage
    \/ KeyringRecovers

SpecStore == (InitStore \/ InitStoreLegacy) /\ [][NextStore]_vars

\* Expiry instants and skews tried, in minutes
MaxExp == 8
MaxSkew == 4

\* Tokens IsValid is asked about: nil, and with or without access token and expiry
ValidityTokens ==
    {NilTok} \cup {TokenData(a, "", "Bearer", e) :
                     a \in {"", "test"}, e \in {NoExpiry} \cup (0..MaxExp)}

NextSkew ==
    \/ \E e \in 0..MaxExp, skew \in 0..MaxSkew : IsExpiredWithSkewCall(e, skew)
    \/ \E skew \in 0..MaxSkew : IsExpiredWithSkewCall(NoExpiry, skew)
    \/ \E td \in ValidityTokens : IsValidCall(td)
    \/ Tick

SpecSkew == InitStore /\ [][NextSkew]_vars

----------------------------------------------------------------------------
(* `costa setup claude-code` and Apply on settings files a user may have *)

\* 2^53 + 1 and 2^53 + 3: integers a JSON file can hold and a float64 cannot
BigOdd1 == <<1>> \o Zeros(MantissaBits - 1) \o <<1>>
BigOdd3 == <<1>> \o Zeros(MantissaBits - 2) \o <<1, 1>>

\* The Costa keys of env other than the token, as setup writes them
CostaEnv ==
    [k \in DOMAIN buildDesiredSettings("").env \ {"ANTHROPIC_AUTH_TOKEN"} |->
        buildDesiredSettings("").env[k]]

TopMaps ==
    {EmptyMap,
     "model" :> Str("gpt-4") @@ "customKey" :> Str("customValue"),
     "model" :> Str("costa/auto") @@ "alwaysThinkingEnabled" :> Bool(TRUE)
        @@ "cleanupPeriodDays" :> Num(<<1, 0, 1, 0, 0>>),
     "model" :> Str("gpt-4") @@ "alwaysThinkingEnabled" :> Bool(FALSE)
        @@ "customId" :> Num(BigOdd1)}

EnvMaps ==
    {EmptyMap,
     "ANTHROPIC_AUTH_TOKEN" :> Str("old-token") @@ "CUSTOM_ENV_VAR" :> Str("should-be-preserved"),
     "ANTHROPIC_AUTH_TOKEN" :> Str("new-token") @@ CostaEnv,
     "ANTHROPIC_AUTH_TOKEN" :> Str("old-token") @@ CostaEnv @@ "CUSTOM_ENV_ID" :> Num(BigOdd3)}

SettingsFiles ==
    {NoSettingsFile, InvalidSettingsFile}
    \cup {SettingsObject(t, "map", e) : t \in TopMaps, e \in EnvMaps}
    \cup {SettingsObject(t, k, EmptyMap) : t \in TopMaps, k \in {"absent", "scalar"}}

InitSetup ==
    /\ keyring = NoKeyring
    /\ metaFile = NoMetaFile
    /\ tokenFile = NoTokenFile
    /\ keyringUp = TRUE
    /\ useKeyring = [p \in {TokProc} |-> TRUE]
    /\ now = 0
    /\ tokenMutex = 0
    /\ pc = [c \in Callers |-> "idle"]
    /\ op = [c \in Callers |-> ""]
    /\ local = [c \in Callers |-> NoLocal]
    /\ sawExpired = FALSE
    /\ badGrant = FALSE
    /\ last = NoRet
    /\ grants = 0
    /\ fetches = 0
    /\ inv = [i \in Invs |-> NoInv]
    /\ port = 0
    /\ sto = NoSto
    /\ cc \in [settings : SettingsFiles, backups : {{}}, run : {NoRun}]

NextSetup ==
    \/ \E flags \in SetupFlags, stdin \in Stdins, world \in Worlds :
          SetupClaudeCode(flags, stdin, world)
    \/ SetupClaudeCodeUpdate
    \/ \E opts \in ApplyOpts, world \in Worlds : ApplyCall(opts, world)

SpecSetup == InitSetup /\ [][NextSetup]_vars

----------------------------------------------------------------------------
(* Properties of the refresh engine and the exchanger, checked under Spec *)

StoredPrimary == Stored(TokProc).token.oauth
StoredCoding  == Stored(TokProc).token.coding

InFlight == {c \in Callers : pc[c] \in {"refreshing", "fetching"}}
AllDone == \A c \in Callers : pc[c] = "done"

\* Expired under the default skew, written out: now + 5 min is after expires_at
ExpiredUnderSkew(td) == td.present /\ td.exp # NoExpiry /\ now + DefaultClockSkew > td.exp
ValidUnderSkew(td) == td.present /\ td.access # "" /\ ~ExpiredUnderSkew(td)

\* A step in which some caller enters EnsureOAuthTokenValid (takes the mutex and loads)
EnsureEntered == \E c \in Callers : pc[c] = "idle" /\ pc'[c] # "idle"
\* The token EnsureOAuthTokenValid hands back in a step in which caller c's refresh
\* grant is answered: NilTok when it returns an error
RefreshResult(c) ==
    IF pc'[c] = "mid" THEN local'[c].oauthToken
    ELSE IF last'.kind = "ok" THEN last'.tok ELSE NilTok
\* A step in which the reply to the coding-token GET is handled
FetchAnswered == \E c \in Callers : pc[c] = "fetching" /\ pc'[c] = "done"

\* C1: N concurrent EnsureOAuthTokenValid callers against a primary token that is
\* expired under the default skew and has a refresh token, with the provider
\* answering grants with tokens valid under the skew: exactly one refresh grant is
\* sent and every caller returns successfully with the same refreshed token.
\* (No time passes and the vault answers, so nothing but the calls is at work.)
C1_SingleFlight ==
    (/\ sawExpired
     /\ now = 0
     /\ keyringUp
     /\ \A c \in Callers : op[c] \in {"", "ensure"}
     /\ ~badGrant)
    => /\ last.kind # "none" =>
            /\ last.kind = "ok"
            /\ last.tok.access = AccessName(1)
            /\ last.tok = StoredPrimary
       /\ AllDone => grants = 1

\* C2: at most one token-mutating network call (refresh grant or coding-token GET)
\* is in flight at any time, and it is made by the holder of the mutex: no second
\* caller is inside its load-check-request-save sequence meanwhile.
C2_OneInFlight ==
    /\ Cardinality(InFlight) <= 1
    /\ \A c \in InFlight : tokenMutex = c

C2_Witness ==
    \E c, d \in Callers : c # d /\ pc[c] \in {"refreshing", "fetching"} /\ pc[d] = "mid"

\* C3: when the stored primary token is expired under the default skew and has a
\* refresh token, EnsureOAuthTokenValid sends a refresh grant; and when a grant
\* succeeds the persisted primary slot equals the returned token.
C3_RefreshWhenExpired ==
    [][/\ (EnsureEntered /\ ExpiredUnderSkew(StoredPrimary) /\ StoredPrimary.refresh # "")
            => grants' = grants + 1
       /\ \A c \in Callers :
            (pc[c] = "refreshing" /\ pc'[c] # "refreshing" /\ RefreshResult(c).present)
              => RefreshResult(c) = StoredPrimary'
      ]_vars

\* C4: a refresh grant is sent only when the stored primary token is expired under
\* the default skew, a coding-token request only when the stored coding token is not
\* valid; and a call that finds the stored primary token valid under the skew (as
\* after a successful refresh) sends nothing and leaves the stored bundle unchanged.
C4_NoNeedlessCall ==
    [][/\ grants' > grants => ExpiredUnderSkew(StoredPrimary)
       /\ fetches' > fetches => ~ValidUnderSkew(StoredCoding)
       /\ (EnsureEntered /\ StoredPrimary.present /\ ~ExpiredUnderSkew(StoredPrimary))
            => (grants' = grants /\ UNCHANGED storeVars)
      ]_vars

C4_Witness ==
    /\ grants = 1
    /\ last.kind = "ok" /\ last.how = "valid"
    /\ last.tok.access = AccessName(1)
    /\ \E c \in Callers : pc[c] = "done"

\* C5: EnsureOAuthTokenValid returns a token only if the stored primary token was
\* valid under the skew or a refresh grant succeeded during that call; with no
\* primary token, with an expired token without refresh token, or with a failed
\* grant it returns an error and leaves the stored bundle unchanged.
C5_NoStaleToken ==
    [][/\ \A c \in Callers :
            (pc[c] = "idle" /\ (pc'[c] = "mid" \/ (pc'[c] = "done" /\ last'.kind = "ok")))
              => (StoredPrimary.present /\ ~ExpiredUnderSkew(StoredPrimary))
       /\ \A c \in Callers :
            (pc[c] \in {"idle", "refreshing"} /\ pc'[c] = "done" /\ last'.kind = "err")
              => UNCHANGED storeVars
       /\ (EnsureEntered /\ (~StoredPrimary.present
                             \/ (ExpiredUnderSkew(StoredPrimary) /\ StoredPrimary.refresh = "")))
            => last'.kind = "err"
      ]_vars

\* C6 (as stated): a coding-token response is treated as success exactly when its
\* status is 2xx (a body that does not decode set aside).
C6_SuccessIff2xx ==
    [][FetchAnswered =>
         ((last'.status \in 200..299 /\ last'.err # "decode_failed") <=> last'.kind = "ok")
      ]_vars

\* C6 (amended): the response is treated as success exactly when its status is 200
\* and its body decodes; 401 and 403 give the authentication error, 404 the
\* endpoint-not-found error, every other status (other 2xx included) and a transport
\* error the generic fetch failure; on every failure the stored bundle is unchanged.
C6_FetchOutcome ==
    [][FetchAnswered =>
         /\ last'.kind = "ok" => last'.status = 200
         /\ last'.status = 200 => (last'.kind = "ok" \/ last'.err = "decode_failed")
         /\ last'.status \in {401, 403} => last'.err = "auth_failed"
         /\ last'.status = 404 => last'.err = "not_found"
         /\ last'.status \notin {200, 401, 403, 404} => last'.err = "fetch_failed"
         /\ last'.kind = "err" => UNCHANGED storeVars
      ]_vars

C6_Witness ==
    /\ last.status = 204
    /\ last.kind = "err" /\ last.err = "fetch_failed"

----------------------------------------------------------------------------
(* Properties of concurrent logins, checked under SpecLogin *)

\* A listener in progress: it has bound the port and has neither persisted its token
\* nor failed
InProgress(i) == inv[i].pc \in {"waiting", "exchanging"}

\* C7: an invocation that found the callback port held by another invocation is a
\* follower: it starts no HTTP server on the port and never saves a token, so the
\* only token persisted is the listener's.
C7_FollowerOnly ==
    \A i \in Invs : inv[i].found => (inv[i].pc \notin ListenerPcs /\ ~inv[i].saved)

\* C7, for runInteractiveLogin alone: an invocation whose net.Listen failed with
\* EADDRINUSE never binds the port and never saves a token.
C7_InteractiveFollower ==
    \A i \in Invs :
        (inv[i].mode = "interactive" /\ inv[i].found) =>
            (inv[i].pc \notin ListenerPcs /\ ~inv[i].saved)

\* C8: while a listener invocation is in progress no other invocation becomes a
\* listener: at most one login is in progress at any time.
C8_OneLoginAtATime ==
    Cardinality({i \in Invs : InProgress(i)}) <= 1

\* C9: a listener that has left the wait, on any of its three outcomes, has released
\* the port and can terminate: when it is in server.Shutdown, Shutdown can return,
\* whatever callback requests were being handled.
C9_ListenerTearsDown ==
    \A i \in Invs :
        inv[i].pc \in ListenerPcs \ {"waiting"} =>
            /\ port # i
            /\ inv[i].pc = "draining" => ENABLED ShutdownReturns(i)

\* C10: a follower polls IsLoggedIn once per interval; it reports success only when
\* IsLoggedIn is true and does so at the first poll that finds it true; it reports
\* the timeout error only when the login wait timeout has elapsed, never waits
\* longer than that, and always terminates.
C10_FollowerPolls ==
    /\ [][\A i \in Invs : (inv[i].pc = "polling" /\ inv'[i] # inv[i]) =>
            /\ inv'[i].pc = "done" \/ inv'[i].polls = inv[i].polls + 1
            /\ inv'[i].polls <= WaitPolls
            /\ (inv'[i].pc = "done" /\ inv'[i].out = "success") => LoggedIn
            /\ (inv'[i].pc = "done" /\ inv'[i].out # "success") =>
                   (inv'[i].out = "timeout" /\ inv[i].polls = WaitPolls)
            /\ (LoggedIn /\ inv[i].polls < WaitPolls) =>
                   (inv'[i].pc = "done" /\ inv'[i].out = "success")
            /\ UNCHANGED <<storeVars, port>>
         ]_vars
    /\ \A i \in Invs : (inv[i].pc = "polling") ~> (inv[i].pc = "done")

C10_Witness ==
    \E i, j \in Invs :
        /\ i # j
        /\ inv[i].mode = "interactive" /\ inv[i].found
        /\ inv[i].pc = "done" /\ inv[i].out = "timeout"
        /\ inv[j].pc = "done" /\ inv[j].out = "exchange_failed"
        /\ ~LoggedIn

----------------------------------------------------------------------------
(* Properties of what login persists, checked under SpecLogin *)

\* Invocation i takes a step in which the stored bundle changes
Persists(i) ==
    /\ inv[i].pc \in {"exchanging", "courtesy_get"}
    /\ inv'[i] # inv[i]
    /\ storeVars' # storeVars

\* Outcomes of a login that did not get a token
FailedOutcomes == {"timeout", "callback_error", "exchange_failed", "bind_failed"}

\* C11: in every login mode the primary token is persisted only by an invocation
\* whose listener received a request with this login's state and a non-empty code
\* and whose code exchange succeeded, and then it is persisted whole (access and
\* refresh token of that exchange); the bundle changes in no other step of a login,
\* and an invocation that ends on a rejected callback, a failed exchange or a
\* timeout has persisted nothing.
C11_PersistOnlyAfterExchange ==
    /\ [][/\ storeVars' # storeVars => \E i \in Invs : Persists(i)
          /\ \A i \in Invs :
               inv'[i].saved /\ ~inv[i].saved =>
                 /\ inv[i].pc = "exchanging"
                 /\ inv[i].gotCode
                 /\ StoredPrimary'.present
                 /\ StoredPrimary'.access = "lt" \o ToString(i)
                 /\ StoredPrimary'.refresh = "lr" \o ToString(i)
          /\ \A i \in Invs :
               Persists(i) /\ inv[i].pc = "exchanging" => inv'[i].saved
          /\ \A i \in Invs :
               inv'[i].out \in FailedOutcomes => ~inv'[i].saved /\ ~Persists(i)]_vars

\* One login was refused for a callback with a wrong state or no code and persisted
\* nothing; the other exchanged its code and persisted its token
C11_Witness ==
    \E i, j \in Invs :
      /\ inv[i].pc = "done" /\ inv[i].out = "callback_error" /\ ~inv[i].saved
      /\ inv[j].pc = "done" /\ inv[j].saved /\ inv[j].out = "success"
      /\ StoredPrimary.access = "lt" \o ToString(j)

\* The process of invocation i starts in this step: the command itself, or the
\* `login --server-mode` process a JSON-mode invocation spawned
Starts(i) ==
    \/ inv[i].pc = "idle" /\ inv'[i].pc # "idle"
    \/ inv[i].pc = "srv_listen" /\ inv'[i].pc # "srv_listen"

\* C12: every invocation of the login command that starts while a token is stored
\* ends at once, reporting success, without binding the callback port and without
\* changing the stored bundle.
C12_GuardedStart ==
    [][\A i \in Invs :
         Starts(i) /\ LoggedIn =>
           /\ inv'[i].pc = "done"
           /\ inv'[i].out \in {"already_logged_in", "waiting_for_user"}
           /\ port' = port
           /\ UNCHANGED storeVars]_vars

\* C13: when the GetCodingToken that follows the persisted primary token fails, the
\* interactive login prints a warning and still reports success, and the stored
\* bundle (the primary token with it) is as it was; no login ends in an error once
\* its primary token is persisted.
C13_CourtesyFailureIsWarning ==
    /\ [][\A i \in Invs :
            inv[i].pc = "courtesy_get" /\ inv'[i].pc # "courtesy_get" =>
              /\ inv'[i].pc = "done"
              /\ inv[i].mode = "interactive" => inv'[i].out = "success"
              /\ inv'[i].out \notin FailedOutcomes \cup {"coding_token_failed"}
              /\ inv'[i].warned =>
                   /\ UNCHANGED storeVars
                   /\ StoredPrimary' = StoredPrimary]_vars
    /\ [](\A i \in Invs : inv[i].warned => inv[i].saved /\ inv[i].out = "success")

\* An interactive login ended with the warning, reporting success, its primary
\* token stored and no service token
C13_Witness ==
    \E i \in Invs :
      /\ inv[i].pc = "done" /\ inv[i].warned /\ inv[i].out = "success"
      /\ StoredPrimary.access = "lt" \o ToString(i)
      /\ ~StoredCoding.present

----------------------------------------------------------------------------
(* Properties of the store called directly, checked under SpecStore *)

\* SaveToken returns in this step
SaveReturns == sto.torn # "" /\ sto'.torn = ""

\* What LoadToken would return to the process right after this step
LoadsNext ==
    LoadToken(keyring', metaFile', tokenFile', useKeyring'[TokProc], keyringUp')

VaultAccounts ==
    {keyringOAuthAccessToken, keyringOAuthRefreshToken, keyringCodingAccessToken}

NothingStored ==
    /\ VaultAccounts \cap DOMAIN keyring = {}
    /\ ~metaFile.exists
    /\ ~tokenFile.exists

\* C14: a LoadToken whose vault read fails does not change the process's backend:
\* useKeyring goes from true to false only when a token file is found or when a
\* SaveToken's vault write failed, so a later SaveToken still tries the vault.
C14_ReadFallbackTransient ==
    [][useKeyring[TokProc] /\ ~useKeyring'[TokProc] =>
         tokenFile.exists \/ sto'.pend.vaultFailed]_vars

\* C15: when the vault write of a SaveToken fails, the whole bundle is written to
\* the token file, SaveToken returns no error, and LoadToken then returns that
\* bundle; the process is in file mode from then on: useKeyring never becomes true
\* again, and no later SaveToken or LoadToken goes to the vault.
C15_WriteFallbackSticky ==
    /\ [][SaveReturns /\ sto.pend.vaultFailed =>
            /\ sto'.call.name = "SaveToken" /\ ~sto'.call.err
            /\ tokenFile'.exists
            /\ tokenFile'.data = sto.pend.arg
            /\ ~useKeyring'[TokProc]
            /\ ~LoadsNext.err
            /\ LoadsNext.token = sto.pend.arg]_vars
    /\ [][~useKeyring[TokProc] =>
            /\ ~useKeyring'[TokProc]
            /\ sto.torn = "" /\ sto'.torn # "" =>
                 ~sto'.pend.vault /\ sto'.torn = "token" /\ keyring' = keyring
            /\ sto'.call # sto.call /\ sto'.call.name = "LoadToken" => ~sto'.call.vault]_vars

\* A SaveToken fell back to the file; the vault answers again, the process is still
\* in file mode and reads the bundle from the file
C15_Witness ==
    /\ sto.call.name = "SaveToken" /\ sto.call.fallback
    /\ sto.torn = ""
    /\ keyringUp
    /\ ~useKeyring[TokProc]
    /\ tokenFile.data = sto.call.arg
    /\ ~Stored(TokProc).err
    /\ Stored(TokProc).token = sto.call.arg

\* C16: LoadToken right after a successful SaveToken(b) returns a bundle equal to
\* b, in vault mode and in file mode (the vault answering where it is used).
C16_RoundTrip ==
    [][SaveReturns /\ (keyringUp' \/ tokenFile'.exists) =>
         /\ ~LoadsNext.err
         /\ LoadsNext.token = sto.pend.arg]_vars

\* C17: a LoadToken in another process never meets a half-written token file or
\* metadata file.
C17_NoTornRead == sto.rd # "torn"

\* C18: after DeleteToken returned, which it does without error, none of the
\* three vault entries, no metadata file and no token file is left, whatever the
\* backend and whatever was there before.
C18_DeleteClearsAll ==
    sto.call.name = "DeleteToken" /\ sto.torn = "" =>
      ~sto.call.err /\ NothingStored

\* C19: IsLoggedIn is false while nothing is stored; it is true right after a
\* successful SaveToken of a bundle with a slot that holds an access token, the
\* service slot alone included, when the vault answers or the token file took the
\* bundle; it is false after DeleteToken.
C19_LoggedInFollowsStore ==
    /\ [](sto.call.name = "IsLoggedIn" /\ sto.torn = "" /\ NothingStored => ~sto.call.ok)
    /\ [](NothingStored => ~LoggedIn)
    /\ [][SaveReturns /\ (keyringUp' \/ tokenFile'.exists) => LoggedIn']_vars
    /\ [](sto.call.name = "DeleteToken" /\ sto.torn = "" => ~LoggedIn)

\* IsLoggedIn answered true with nothing but a service token stored
C19_Witness ==
    /\ sto.call.name = "IsLoggedIn" /\ sto.call.ok
    /\ sto.torn = ""
    /\ ~Stored(TokProc).err
    /\ Stored(TokProc).token.coding.present
    /\ ~Stored(TokProc).token.oauth.present
    /\ keyringOAuthAccessToken \notin DOMAIN keyring

----------------------------------------------------------------------------
(* Properties of the validity check, checked under SpecSkew *)

\* IsExpiredWithSkew returns in this step, for a token with an expiry
ExpiryChecked ==
    /\ sto'.call # sto.call
    /\ sto'.call.name = "IsExpiredWithSkew"
    /\ sto'.call.arg.oauth.exp # NoExpiry

\* C20 as claimed: for a token expiring d from now, IsExpiredWithSkew(skew) is true
\* exactly when skew >= d.
C20_ExpiredIffSkewAtLeast ==
    [][ExpiryChecked =>
         (sto'.call.ok <=> sto'.call.skew >= sto'.call.arg.oauth.exp - now)]_vars

\* C20 amended: for a token expiring d from now, IsExpiredWithSkew(skew) is true
\* exactly when skew > d; a token expiring exactly skew from now is not expired.
C20_ExpiredIffSkewExceeds ==
    [][ExpiryChecked =>
         (sto'.call.ok <=> sto'.call.skew > sto'.call.arg.oauth.exp - now)]_vars

\* A token expiring exactly skew from now was found not expired
C20_Witness ==
    /\ sto.call.name = "IsExpiredWithSkew"
    /\ sto.call.skew > 0
    /\ sto.call.arg.oauth.exp - now = sto.call.skew
    /\ ~sto.call.ok

\* IsValid or IsExpiredWithSkew returns in this step
ValidityAnswered(n) == sto'.call # sto.call /\ sto'.call.name = n

\* C21: IsValid(t) is true exactly when t has a non-empty access token and is not
\* expired under the default skew of 5 minutes; a token without expires_at is not
\* expired whatever the skew, and a token whose expires_at is in the past is
\* expired for every non-negative skew.
C21_ValidIffTokenAndFresh ==
    [][LET t == sto'.call.arg.oauth IN
       /\ ValidityAnswered("IsValid") =>
            (sto'.call.ok <=>
               /\ t.present
               /\ t.access # ""
               /\ (t.exp = NoExpiry \/ now + DefaultClockSkew <= t.exp))
       /\ ValidityAnswered("IsExpiredWithSkew") /\ t.exp = NoExpiry => ~sto'.call.ok
       /\ ValidityAnswered("IsExpiredWithSkew") /\ t.exp # NoExpiry /\ t.exp < now =>
            sto'.call.ok]_vars

\* IsValid answered true for a token that has an expiry
C21_Witness ==
    /\ sto.call.name = "IsValid"
    /\ sto.call.ok
    /\ sto.call.arg.oauth.exp # NoExpiry
    /\ sto.call.arg.oauth.access # ""

----------------------------------------------------------------------------
(* Further properties of the store called directly, checked under SpecStore *)

\* The last call was LoadToken and the store is as that call found it
JustLoaded == sto.call.name = "LoadToken" /\ sto.torn = ""

\* C22: a token file with the deprecated cli field and no coding field loads with
\* that token in the service slot and no cli slot; whatever SaveToken writes for a
\* bundle that came from LoadToken has no cli field.
C22_LegacyFieldMigrates ==
    /\ [](JustLoaded /\ tokenFile.exists /\ tokenFile.data.cli.present
            /\ ~tokenFile.data.coding.present =>
              /\ ~sto.call.err
              /\ sto.call.token.coding = tokenFile.data.cli
              /\ sto.call.token.oauth = tokenFile.data.oauth
              /\ ~sto.call.token.cli.present)
    /\ [](sto.torn = "token" => ~sto.pend.tokenFile.data.cli.present)
    /\ [](sto.call.name = "SaveToken" /\ sto.torn = ""
            /\ (~sto.call.vault \/ sto.call.fallback) => ~tokenFile.data.cli.present)

\* The token of a legacy file was loaded into the service slot and saved again:
\* the token file now holds it in the coding field
C22_Witness ==
    /\ sto.call.name = "SaveToken"
    /\ sto.torn = ""
    /\ tokenFile.exists
    /\ tokenFile.data.coding.access = "cli0"
    /\ ~tokenFile.data.cli.present

----------------------------------------------------------------------------
(* Properties of `costa setup claude-code`, checked under SpecSetup *)

\* The responses that say n or no
NoAnswers == {<<"n", "\n">>, <<" ", "N", "o", "\n">>}

AnsweredNo == cc.run.asked /\ cc.run.answer \in NoAnswers

\* C23: a run with --dry-run (or Apply with DryRun), and a run whose confirmation
\* prompt was answered n or no, leaves the settings file as it was and creates no
\* backup; the file is written and a backup taken only by the other runs.
C23_WritesOnlyWhenConfirmed ==
    [][cc'.run.dryRun \/ AnsweredNo'
         => /\ cc'.settings = cc.settings
            /\ cc'.backups = cc.backups
            /\ ~cc'.run.backup /\ ~cc'.run.wrote]_vars

C23_Witness ==
    /\ cc.run.name = "setup" /\ AnsweredNo /\ cc.run.changed
    /\ ~cc.run.wrote /\ cc.backups = {}
    /\ cc.settings.kind = "object"
    /\ "ANTHROPIC_AUTH_TOKEN" \in DOMAIN cc.settings.env
    /\ cc.settings.env["ANTHROPIC_AUTH_TOKEN"] = Str("old-token")

\* The keys setup manages: those of the desired settings
CostaTopKeys == DOMAIN buildDesiredSettings("").top
CostaEnvKeys == DOMAIN buildDesiredSettings("").env

\* Every key of map `old` outside `managed` is in `new` with the value it had
Kept(old, new, managed) ==
    \A k \in DOMAIN old \ managed : k \in DOMAIN new /\ new[k] = old[k]

\* C24: a run or an Apply that rewrites an existing settings file keeps every
\* top-level key and every env key that is not a Costa-managed key, with the value
\* it had, in full mode and in refresh-token-only mode.
C24_KeepsUnknownKeys ==
    [][cc.settings.kind = "object" /\ cc'.settings # cc.settings
         => /\ Kept(cc.settings.top, cc'.settings.top, CostaTopKeys)
            /\ Kept(cc.settings.env, cc'.settings.env, CostaEnvKeys)]_vars

\* The Costa-managed settings other than the auth token that the file held before
\* and holds with another value after
Overwritten(old, new) ==
    {k \in DOMAIN old.top \cap CostaTopKeys : new.top[k] # old.top[k]}
    \cup {k \in (DOMAIN old.env \cap CostaEnvKeys) \ {"ANTHROPIC_AUTH_TOKEN"} :
             new.env[k] # old.env[k]}

\* C25: a setup run that goes through leaves the auth token of the run in the
\* settings file, and a run overwrites another existing setting only when --update
\* was given.
C25_OverwritesOnlyWithUpdate ==
    [][/\ cc'.run.name = "setup" /\ cc'.run.wrote
          => cc'.settings.env["ANTHROPIC_AUTH_TOKEN"] = Str("new-token")
       /\ cc.settings.kind = "object" /\ cc'.settings # cc.settings
          /\ Overwritten(cc.settings, cc'.settings) # {}
          => cc'.run.update]_vars

----------------------------------------------------------------------------
(* Slots of the persisted bundle across a refresh and a fetch, checked under Spec *)

\* Caller c's refresh grant is answered and the new primary token is saved
RefreshSaves(c) == pc[c] = "refreshing" /\ pc'[c] # "refreshing" /\ last'.kind # "err"

\* Caller c's GET is answered and the service token is saved
FetchSaves(c) == pc[c] = "fetching" /\ pc'[c] = "done" /\ last'.kind = "ok"

\* C26: when a refresh in EnsureOAuthTokenValid saves, the service slot LoadToken
\* reads back is the one of the bundle the call loaded; when a fetch in
\* GetCodingToken saves, the primary slot read back is the one the call loaded; in
\* the vault backend and in the file backend.
C26_OtherSlotKept ==
    [][\A c \in Callers :
         /\ RefreshSaves(c) =>
               /\ ~Stored(TokProc)'.err
               /\ Stored(TokProc)'.token.coding = local[c].token.coding
         /\ FetchSaves(c) =>
               /\ ~Stored(TokProc)'.err
               /\ Stored(TokProc)'.token.oauth = local[c].token.oauth]_vars

C26_Witness ==
    /\ last.kind = "ok" /\ last.how = "refreshed"
    /\ StoredPrimary = last.tok
    /\ StoredCoding.present /\ StoredCoding.access # ""
    /\ useKeyring[TokProc]

\* C28: a token EnsureOAuthTokenValid or GetCodingToken returns without error has a
\* non-empty access token, is not expired under the default skew at that moment,
\* and is the corresponding slot of the bundle LoadToken then returns.
C28_ReturnedTokenValid ==
    [][\A c \in Callers :
         /\ pc[c] \in {"idle", "refreshing"} /\ pc'[c] = "mid" =>
               /\ IsValid(local'[c].oauthToken, now)
               /\ local'[c].oauthToken = StoredPrimary'
         /\ pc[c] # "done" /\ pc'[c] = "done" /\ last'.kind = "ok" =>
               /\ IsValid(last'.tok, now)
               /\ last'.tok = IF op'[c] = "ensure" THEN StoredPrimary' ELSE StoredCoding']_vars

----------------------------------------------------------------------------
(* Properties of IsLoggedIn and of the store's last write, checked under SpecStore *)

\* IsLoggedIn returns in this step
LoggedInAnswered ==
    /\ sto'.call.name = "IsLoggedIn"
    /\ sto.torn = "" /\ sto'.torn = "" /\ sto'.rd = sto.rd
    /\ keyringUp' = keyringUp

\* keyring.Get of account a returns a secret
VaultHolds(a) == keyringUp /\ a \in DOMAIN keyring

IsPrefix(s, t) == Len(s) <= Len(t) /\ s = SubSeq(t, 1, Len(s))

\* C27: IsLoggedIn answers true exactly when the token file exists, or the metadata
\* file exists and the vault returns a primary or a service access token; it looks
\* at the token file, then the metadata file, then the vault, and asks the vault
\* nothing when the token file exists or the metadata file is absent.
C27_LoggedInOrder ==
    [][LoggedInAnswered =>
         /\ sto'.call.ok <=>
               \/ tokenFile.exists
               \/ /\ metaFile.exists
                  /\ \/ VaultHolds(keyringOAuthAccessToken)
                     \/ VaultHolds(keyringCodingAccessToken)
         /\ sto'.call.probes # <<>>
         /\ IsPrefix(sto'.call.probes,
                     <<"token.json", "token-metadata.json", keyringOAuthAccessToken,
                       keyringCodingAccessToken>>)
         /\ tokenFile.exists \/ ~metaFile.exists
               => \A n \in 1..Len(sto'.call.probes) :
                     sto'.call.probes[n] \notin VaultAccounts]_vars

\* IsLoggedIn answered from the token file alone while the vault held a token
C27_Witness ==
    /\ sto.call.name = "IsLoggedIn" /\ sto.call.ok
    /\ sto.call.probes = <<"token.json">>
    /\ tokenFile.exists /\ metaFile.exists
    /\ VaultHolds(keyringOAuthAccessToken)

\* Slot `got` holds nothing but what slot `want` holds
FromSlot(got, want) ==
    got.present =>
        /\ want.present
        /\ got.access = want.access
        /\ got.refresh # "" => got.refresh = want.refresh
        /\ got.exp = want.exp

\* The save that returns went to the backend every save so far went to: to the
\* vault, which answers, with no token file about; or to the token file
OneBackend ==
    IF sto.pend.vault /\ ~sto.pend.vaultFailed
    THEN keyringUp' /\ ~tokenFile'.exists
    ELSE ~sto.pend.vault /\ ~metaFile'.exists

\* C29: LoadToken right after a successful SaveToken returns nothing an earlier
\* SaveToken wrote, in one backend mode: each slot it returns is a slot of the bundle
\* just saved, with that bundle's access token, refresh token and expiry.
C29_NothingStale ==
    [][SaveReturns /\ OneBackend =>
         /\ FromSlot(LoadsNext.token.oauth, sto.pend.arg.oauth)
         /\ FromSlot(LoadsNext.token.coding, sto.pend.arg.coding)]_vars

\* C30: when IsLoggedIn answers true, LoadToken in the same state returns without
\* error a bundle in which the primary or the service slot holds a non-empty access
\* token.
C30_LoggedInMeansLoadable ==
    [][LoggedInAnswered /\ sto'.call.ok =>
         /\ ~Stored(TokProc).err
         /\ \/ Stored(TokProc).token.oauth.access # ""
            \/ Stored(TokProc).token.coding.access # ""]_vars
====
